---- MODULE Spec2Model ----
(***************************************************************************)
(* Model of the data-loading pipeline of scitran-data (nimsdata):          *)
(*   - NIMSPFile (src/medimg/nimspfile.py): construction, load_data,       *)
(*     _full_parse, do_recon and the reconstruction strategies, with the   *)
(*     polling job pool of recon_muxepi modelled step by step;             *)
(*   - NIMSDicom (src/medimg/nimsdicom.py) with the GE MR composer         *)
(*     functions (src/scitran/data/medimg/dcm/mr/ge.py) and the generic MR *)
(*     converters (src/medimg/dcm/mr/generic_mr.py).                       *)
(* One behaviour is the life of one Dataset object: Init is the object as  *)
(* its constructor leaves it, every later step is a step of load_data or   *)
(* the exit of one external reconstruction process.                        *)
(***************************************************************************)
EXTENDS Integers, Sequences, FiniteSets, TLC

(***************************************************************************)
(* Bounds of the model.                                                    *)
(***************************************************************************)
MaxSlices == 3      \* slquant of a raw file, LocationsInAcquisition of a series
MaxJobs == 2        \* num_jobs handed to the constructor
MaxPasses == 2      \* rec.npasses of a raw file
MaxTP == 2          \* timepoints one per-slice mux output can hold
MaxCalls == 2        \* load_data calls made on one Dataset
MaxDcm == 5         \* DICOM elements in one archive

\* Python's None for a string-valued and for an integer-valued attribute.
None == "None"
Unset == 0 - 1

\* The slice-order codes (nifti1 style).
SLICE_ORDER_UNKNOWN == 0
SLICE_ORDER_SEQ_INC == 1
SLICE_ORDER_SEQ_DEC == 2
SLICE_ORDER_ALT_INC == 3
SLICE_ORDER_ALT_DEC == 4

Min(a, b) == IF a < b THEN a ELSE b

\* Python's 'x or d' on an integer attribute
Or(x, d) == IF x = Unset \/ x = 0 THEN d ELSE x

(***************************************************************************)
(* Raw-acquisition (P-file) headers.                                       *)
(***************************************************************************)
PsdNames == {"sprt", "sprl_hos", "basic", "mux_epi", "epi", "probe-mega", "bravo"}

\* 'mux' in psd_name or 'mb_' in psd_name, and 'epi' in psd_name, on PsdNames
HasMux(name) == name \in {"mux_epi"}
HasEpi(name) == name \in {"mux_epi", "epi"}

\* dcm.mr.ge.infer_psd_type: the keyword table, in its priority order
ge_infer_psd_type(psd_name) ==
    IF psd_name = "" THEN "unknown"
    ELSE IF psd_name = "sprt" THEN "spiral"
    ELSE IF psd_name = "sprl_hos" THEN "hoshim"
    ELSE IF psd_name = "basic" THEN "basic"
    ELSE IF HasMux(psd_name) THEN "muxepi"
    ELSE IF HasEpi(psd_name) THEN "epi"
    ELSE IF psd_name \in {"probe-mega", "gaba_ss_cni", "special_siam2"} THEN "mrs"
    ELSE IF psd_name \in {"bravo", "3dgrass"} THEN "spgr"
    ELSE "unknown"

\* NIMSPFile.infer_psd_type: the keyword table, then the hack for misnamed mux scans
infer_psd_type(psd_name, user6) ==
    LET t == ge_infer_psd_type(psd_name)
    IN  IF t = "epi" /\ user6 > 0 THEN "muxepi" ELSE t

\* The header fields the model reads.  Fields that a sequence type never
\* looks at are pinned, which keeps the set of inputs small.
\* What get_version reads of a file: the first four bytes, and the string at
\* offset 34 (None when the file ends before it).
VersionBytes ==
    { << 0, 0, 192, 65 >>, << 86, 14, 160, 65 >>, << 74, 12, 160, 65 >>, << 0, 0, 48, 65 >>,
      << 0, 0, 192, 66 >>, << 0, 0, 0, 0 >>, << 0, 0, 192 >> }
Logos == {"GE_MED_NMR", "INVALIDNMR", "GE_MED_XXX", None}

\* get_version: the exception it ends with (None when it returns) and the
\* version it returns
get_version_any_logo(version_bytes, logo) ==
    LET version == CASE version_bytes = << 0, 0, 192, 65 >> -> 24
                     [] version_bytes = << 86, 14, 160, 65 >> -> 23
                     [] version_bytes = << 74, 12, 160, 65 >> -> 22
                     [] version_bytes = << 0, 0, 48, 65 >> -> 12
                     [] OTHER -> Unset
    IN  IF logo = None THEN [raises |-> "struct.error", version |-> Unset]
        ELSE IF version = Unset THEN [raises |-> "NIMSPFileError", version |-> Unset]
        ELSE [raises |-> None, version |-> version]
get_version(version_bytes, logo) ==
    LET version == CASE version_bytes = << 0, 0, 192, 65 >> -> 24
                     [] version_bytes = << 86, 14, 160, 65 >> -> 23
                     [] version_bytes = << 74, 12, 160, 65 >> -> 22
                     [] version_bytes = << 0, 0, 48, 65 >> -> 12
                     [] OTHER -> Unset
    IN  IF logo = None THEN [raises |-> "struct.error", version |-> Unset]
        ELSE IF version = Unset THEN [raises |-> "NIMSPFileError", version |-> Unset]
        ELSE IF logo # "GE_MED_NMR" /\ logo # "INVALIDNMR"
        THEN [raises |-> "NIMSPFileError", version |-> Unset]
        ELSE [raises |-> None, version |-> version]

PFileHeaders ==
    { h \in [ psdname : PsdNames,
              slquant : 1..MaxSlices,
              npasses : 1..MaxPasses,
              nechoes : 1..2,
              user0 : 0..MaxPasses,
              user6 : 0..2,
              user7 : {0, 2},
              ileaves : 1..2,
              start_ras : {"S", "A"},
              start_gt_end : BOOLEAN,
              numdifdirs : {0, 6},
              se_sortorder : 0..2,
              version_bytes : VersionBytes,
              logo : Logos ] :
        /\ (Len(h.version_bytes) < 4 => h.logo = None)
        \* the header fields vary on version-24 files
        /\ (h.version_bytes # << 0, 0, 192, 65 >> \/ h.logo # "GE_MED_NMR" => h.psdname = "bravo")
        /\ (h.psdname # "sprt" \/ h.slquant > 1 => h.se_sortorder = 0)
        /\ (h.psdname # "sprt" => h.nechoes = 1 /\ h.user0 = 0)
        /\ (h.psdname = "sprt" => h.user0 >= 1 /\ h.npasses = 1)
        /\ (~HasEpi(h.psdname) => h.user6 = 0 /\ h.user7 = 0 /\ h.ileaves = 1)
        /\ (HasMux(h.psdname) => h.user6 >= 1)
        /\ (h.user6 = 0 => h.user7 = 0 /\ h.ileaves = 1)
        /\ (h.psdname # "epi" => h.numdifdirs = 0)
        /\ (h.psdname # "sprt" => h.start_ras = "S")
        /\ (h.psdname \notin {"sprt", "mux_epi"} => ~h.start_gt_end)
        /\ (h.psdname = "mux_epi" => h.npasses = MaxPasses)
        \* the job pool reads num_slices only: the other mux fields vary on one slice
        /\ (h.psdname = "mux_epi" /\ h.slquant > 1 =>
                h.user6 = 1 /\ h.user7 = 2 /\ h.ileaves = 1 /\ ~h.start_gt_end)
        /\ (h.psdname = "epi" /\ h.user6 > 0 => h.slquant = 1 /\ h.user7 = 2 /\ h.ileaves = 1)
        /\ (h.psdname \notin {"sprt", "mux_epi", "epi"} => h.slquant = 1 /\ h.npasses = 1) }

\* What the caller may hand over as aux_file: nothing, an archive holding a
\* matching _ref.dat/_vrgf.dat pair, one holding only a _ref.dat, one holding neither.
AuxFiles == {None, "cal.tgz", "refonly.tgz", "nocal.tgz"}

\* The file at filepath: a bare P-file, an archive holding a P-file, an
\* archive in which no member passes get_version, an archive without a json
\* member that has a header section.
Inputs == {"pfile.7", "pfile.tgz", "nopfile.tgz", "nojson.tgz"}

is_tarfile(path) == path \in {"pfile.tgz", "nopfile.tgz", "nojson.tgz"}

(***************************************************************************)
(* Metadata.  One record holds the attributes of the Dataset the model     *)
(* follows; an attribute that was never assigned is Unset / None / FALSE.  *)
(***************************************************************************)
EmptyMeta ==
    [ psd_name |-> None, psd_type |-> None,
      num_slices |-> Unset, num_timepoints |-> Unset,
      num_timepoints_available |-> Unset, num_echos |-> Unset,
      num_bands |-> Unset, num_mux_cal_cycle |-> Unset,
      total_num_slices |-> Unset,
      is_dwi |-> FALSE, is_non_image |-> FALSE,
      is_localizer |-> FALSE, is_multicoil |-> FALSE, is_fastcard |-> FALSE,
      reverse_slice_order |-> FALSE, flip_lr |-> FALSE,
      slice_order |-> SLICE_ORDER_UNKNOWN,
      version |-> Unset ]

min_parse_never_raises(h) == FALSE

\* NIMSPFile._min_parse raises inside infer_psd_type when the keyword table
\* says 'epi': the hack reads self._hdr, which only _full_parse assigns.
\* For version 12 it reads the sequence name from 'flleobj', a name that is
\* not defined.
min_parse_raises(h) ==
    \/ get_version(h.version_bytes, h.logo).version = 12
    \/ ge_infer_psd_type(h.psdname) = "epi"

\* NIMSPFile._min_parse: the sort-critical fields read at fixed offsets
min_parse(h) ==
    LET t == ge_infer_psd_type(h.psdname)
        tp == IF t = "spiral" THEN h.user0
              ELSE IF t = "basic" THEN (h.npasses * h.nechoes - 6) \div 2
              ELSE IF t = "muxepi" THEN h.npasses + h.user6 * h.ileaves * (h.user7 - 1)
              ELSE h.npasses
    IN  [ EmptyMeta EXCEPT !.psd_name = h.psdname, !.psd_type = t,
                           !.num_timepoints = tp, !.num_echos = h.nechoes ]

\* NIMSPFile._full_parse: the generic decode, then the sequence-specific
\* overrides, then the fields derived from the corrected values
full_parse(m, h) ==
    LET t == infer_psd_type(h.psdname, h.user6)
        bands == IF t = "muxepi" THEN h.user6 ELSE 1
        cal == IF t = "muxepi" THEN h.user7 ELSE 0
        tp == IF t = "spiral" THEN h.user0
              ELSE IF t = "basic" THEN (h.npasses * h.nechoes - 6) \div 2
              ELSE IF t = "muxepi" THEN h.npasses + bands * (h.ileaves - 1) * cal
              ELSE h.npasses
        avail == IF t = "muxepi" THEN h.npasses - bands * cal + cal ELSE h.npasses
        down == h.start_gt_end
    IN  [ m EXCEPT !.psd_name = h.psdname, !.psd_type = t,
                   !.num_slices = h.slquant,
                   !.num_echos = IF t = "basic" THEN 1 ELSE h.nechoes,
                   !.num_bands = bands, !.num_mux_cal_cycle = cal,
                   !.num_timepoints = tp, !.num_timepoints_available = avail,
                   !.total_num_slices = h.slquant * tp,
                   !.is_dwi = (h.numdifdirs >= 6),
                   !.reverse_slice_order = (h.start_ras \in {"S", "I"} /\ down),
                   !.flip_lr = (h.start_ras \in {"A", "P"} /\ down),
                   !.slice_order = IF h.se_sortorder = 0 THEN SLICE_ORDER_SEQ_INC
                                   ELSE IF h.se_sortorder = 1 THEN SLICE_ORDER_ALT_INC
                                   ELSE SLICE_ORDER_UNKNOWN ]

(***************************************************************************)
(* State.                                                                  *)
(***************************************************************************)
VARIABLES
    kind,               \* "pfile" (NIMSPFile) or "dicom" (NIMSDicom)
    input,              \* what self.filepath names
    hdr,                \* the raw header stored in the P-file
    series,             \* the DICOM series stored in the archive
    aux_file,           \* self.aux_file
    num_jobs,           \* self.num_jobs
    pc,                 \* where the caller / load_data stands
    calls,              \* load_data calls made so far
    meta,               \* the metadata attributes of the Dataset
    full_parsed,        \* self.full_parsed
    metadata_status,    \* self.metadata_status
    data,               \* self.data
    failure_reason,     \* self.failure_reason
    tempdirs,           \* temporary directories that exist on disk
    executed,           \* strategies entered during the current load_data call
    raised,             \* the exception the current call's strategy raised
    succeeded,          \* calls whose strategy ran to its end
    mux_recon_jobs,     \* recon_muxepi: the Popen handles, in submission order
    slice_num,          \* recon_muxepi: the loop variable
    waited,             \* recon_muxepi: handles the wait loop has passed
    files,              \* recon_muxepi: the output files in the job directory
    img,                \* recon_muxepi: the volume being accumulated
    dcm_list,           \* NIMSDicom: the number of elements in self._dcm_list
    api,                \* the call of the package interface being followed
    result              \* what that call raised or returned

vars == << kind, input, hdr, series, aux_file, num_jobs, pc, calls, meta,
           full_parsed, metadata_status, data, failure_reason, tempdirs,
           executed, raised, succeeded, mux_recon_jobs, slice_num, waited, files,
           img, dcm_list, api, result >>

\* what no method of the Dataset assigns
inputVars == << kind, input, hdr, series, aux_file, num_jobs, api, result >>
muxVars == << mux_recon_jobs, slice_num, waited, files, img >>

\* self.data: None, or a dict from label to array.  An array remembers the
\* load_data call and the stage of the strategy that assigned it.
NoData == [isNone |-> TRUE, vox |-> {}]
Dict(arrays) == [isNone |-> FALSE, vox |-> arrays]
Array(label, stage, volume, n) ==
    [label |-> label, call |-> calls, stage |-> stage, img |-> volume, n |-> n,
     rev |-> FALSE, lr |-> FALSE]

\* tempdir.TemporaryDirectory as a context manager: the directory exists
\* from __enter__ to __exit__, whichever way the block is left.
TemporaryDirectory_enter(dirs, d) == dirs \cup {d}
TemporaryDirectory_exit(dirs, d) == dirs \ {d}

\* The directories load_data itself holds open while do_recon runs.
load_data_exit_leak(dirs) == dirs
load_data_exit(dirs) ==
    IF is_tarfile(input) THEN TemporaryDirectory_exit(dirs, "unpack") ELSE dirs

NoSeries == [n |-> 0]

\* the Dataset was constructed by the caller itself, not through parse
NoCall == [op |-> "none"]
NoResult == [raises |-> None, value |-> None]

(***************************************************************************)
(* NIMSPFile.__init__                                                      *)
(***************************************************************************)
InitPFile ==
    /\ kind = "pfile"
    /\ api = NoCall
    /\ result = NoResult
    /\ input \in Inputs
    /\ hdr \in PFileHeaders
    /\ series = NoSeries
    /\ aux_file \in AuxFiles
    /\ num_jobs \in 0..MaxJobs
    \* parameters only recon_muxepi reads are pinned for the other sequences
    /\ infer_psd_type(hdr.psdname, hdr.user6) # "muxepi"
            => aux_file = None /\ num_jobs = MaxJobs
    /\ hdr.user7 >= 2 => aux_file = None
    /\ input = "pfile.tgz" => get_version(hdr.version_bytes, hdr.logo).raises = None
    /\ input \in {"nopfile.tgz", "nojson.tgz"}
            => hdr.version_bytes = << 0, 0, 0, 0 >> /\ hdr.logo = "GE_MED_NMR"
    /\ calls = 0
    /\ full_parsed = FALSE
    /\ data = NoData
    /\ failure_reason = None
    /\ tempdirs = {}
    /\ executed = << >>
    /\ raised = None
    /\ succeeded = {}
    /\ mux_recon_jobs = << >>
    /\ slice_num = 0
    /\ waited = 0
    /\ files = {}
    /\ img = << >>
    /\ dcm_list = << >>
    /\ IF input = "nojson.tgz"
       THEN \* 'no json file with header section found': the constructor raises
            /\ meta = EmptyMeta
            /\ metadata_status = "empty"
            /\ pc = "no_dataset"
       ELSE IF is_tarfile(input)
       THEN \* the json header of the archive: identifiers only
            /\ meta = EmptyMeta
            /\ metadata_status = "pending"
            /\ pc = "pending"
       ELSE IF get_version(hdr.version_bytes, hdr.logo).raises # None \/ min_parse_raises(hdr)
       THEN \* 'not a PFile?': the constructor raises, no Dataset exists
            /\ meta = EmptyMeta
            /\ metadata_status = "empty"
            /\ pc = "no_dataset"
       ELSE /\ meta = [min_parse(hdr) EXCEPT
                            !.version = get_version(hdr.version_bytes, hdr.logo).version]
            /\ metadata_status = "pending"
            /\ pc = "pending"

(***************************************************************************)
(* NIMSPFile.load_data                                                     *)
(***************************************************************************)
load_data ==
    /\ kind = "pfile"
    /\ pc = "pending"
    /\ calls < MaxCalls
    /\ calls' = calls + 1
    /\ executed' = << >>
    /\ raised' = None
    /\ IF is_tarfile(input)
       THEN \* the first member get_version accepts is parsed
            /\ tempdirs' = TemporaryDirectory_enter(tempdirs, "unpack")
            /\ IF get_version(hdr.version_bytes, hdr.logo).raises = None
               THEN /\ meta' = [meta EXCEPT
                                    !.version = get_version(hdr.version_bytes, hdr.logo).version]
                    /\ pc' = "full_parse"
               ELSE /\ meta' = meta
                    /\ pc' = "do_recon"
       ELSE /\ tempdirs' = tempdirs
            /\ meta' = meta
            /\ pc' = IF full_parsed THEN "do_recon" ELSE "full_parse"
    /\ UNCHANGED << inputVars, full_parsed, metadata_status, data,
                    failure_reason, succeeded, muxVars, dcm_list >>

load_data_raise_swallowed ==
    /\ pc' = "do_recon"
    /\ tempdirs' = tempdirs

\* An exception that leaves load_data: every with block on the way out is exited.
load_data_raise ==
    /\ pc' = "raised"
    /\ tempdirs' = load_data_exit(tempdirs)

\* _full_parse: decoding succeeds, or fails before / after 'self.data = None'
_full_parse ==
    /\ pc = "full_parse"
    /\ \E outcome \in {"ok", "ImportError", "ValueError"} :
        CASE outcome = "ok" ->
                /\ meta' = full_parse(meta, hdr)
                /\ data' = NoData
                /\ full_parsed' = TRUE
                /\ pc' = "do_recon"
                /\ UNCHANGED tempdirs
          [] outcome = "ImportError" ->
                /\ load_data_raise
                /\ UNCHANGED << meta, data, full_parsed >>
          [] outcome = "ValueError" ->
                /\ load_data_raise
                /\ data' = NoData
                /\ UNCHANGED << meta, full_parsed >>
    \* 'self.metadata_statue = "complete"' assigns another attribute
    /\ UNCHANGED << inputVars, calls, metadata_status, failure_reason, executed,
                    raised, succeeded, muxVars, dcm_list >>

\* NIMSPFile.recon_func
recon_func(psd_type) ==
    IF psd_type = "spiral" THEN "recon_spirec"
    ELSE IF psd_type = "muxepi" THEN "recon_muxepi"
    ELSE IF psd_type = "mrs" THEN "recon_mrs"
    ELSE IF psd_type = "hoshim" THEN "recon_hoshim"
    ELSE IF psd_type = "basic" THEN "recon_basic"
    ELSE None

\* do_recon up to the call of the strategy
do_recon ==
    /\ pc = "do_recon"
    /\ \E tensor \in {"ok", "NIMSPFileError"} :
        IF meta.is_dwi /\ tensor = "NIMSPFileError"
        THEN \* get_bvecs_bvals: the tensor file belongs to another series
             /\ load_data_raise
             /\ UNCHANGED executed
        ELSE IF meta.psd_type = None
        THEN \* AttributeError: psd_type was never assigned
             /\ load_data_raise
             /\ UNCHANGED executed
        ELSE IF recon_func(meta.psd_type) = None
        THEN /\ pc' = "recon_done"
             /\ UNCHANGED << executed, tempdirs >>
        ELSE /\ pc' = recon_func(meta.psd_type)
             /\ executed' = Append(executed, recon_func(meta.psd_type))
             /\ UNCHANGED tempdirs
    /\ UNCHANGED << inputVars, calls, meta, full_parsed, metadata_status, data,
                    failure_reason, raised, succeeded, muxVars, dcm_list >>

\* the except clause of do_recon
do_recon_propagates(e) ==
    /\ data' = data
    /\ failure_reason' = failure_reason
    /\ raised' = e
    /\ pc' = "raised"
do_recon_except(e) ==
    /\ data' = NoData
    /\ failure_reason' = e
    /\ raised' = e
    /\ pc' = "recon_done"

\* the strategy returned
do_recon_returned ==
    /\ succeeded' = succeeded \cup {calls}
    /\ pc' = "recon_done"

recon_hoshim ==
    /\ pc = "recon_hoshim"
    /\ meta' = [meta EXCEPT !.is_non_image = TRUE]
    /\ do_recon_returned
    /\ UNCHANGED << inputVars, calls, full_parsed, metadata_status, data,
                    failure_reason, tempdirs, executed, raised, muxVars, dcm_list >>

recon_basic ==
    /\ pc = "recon_basic"
    /\ meta' = [meta EXCEPT !.is_non_image = TRUE]
    /\ do_recon_returned
    /\ UNCHANGED << inputVars, calls, full_parsed, metadata_status, data,
                    failure_reason, tempdirs, executed, raised, muxVars, dcm_list >>

recon_mrs ==
    /\ pc = "recon_mrs"
    /\ \E outcome \in {"ok", "IOError"} :
        IF outcome = "ok"
        THEN /\ data' = Dict({Array("", "mrs", << >>, << >>)})
             /\ do_recon_returned
             /\ UNCHANGED << failure_reason, raised >>
        ELSE /\ do_recon_except(outcome)
             /\ UNCHANGED succeeded
    /\ UNCHANGED << inputVars, calls, meta, full_parsed, metadata_status,
                    tempdirs, executed, muxVars, dcm_list >>

(***************************************************************************)
(* NIMSPFile.recon_spirec                                                  *)
(***************************************************************************)
\* entry: the working directory is made and spirec is run in it
recon_spirec ==
    /\ pc = "recon_spirec"
    /\ tempdirs' = TemporaryDirectory_enter(tempdirs, "spirec")
    /\ pc' = "spirec_mag"
    /\ UNCHANGED << inputVars, calls, meta, full_parsed, metadata_status, data,
                    failure_reason, executed, raised, succeeded, muxVars, dcm_list >>

\* an exception inside the with block of recon_spirec
spirec_raise(e) ==
    /\ do_recon_except(e)
    /\ tempdirs' = TemporaryDirectory_exit(tempdirs, "spirec")
    /\ UNCHANGED succeeded

\* self.data = {'': <.mag_float reshaped>}
spirec_mag ==
    /\ pc = "spirec_mag"
    /\ \E outcome \in {"ok", "IOError"} :
        IF outcome = "ok"
        THEN /\ data' = Dict({Array("", "mag", << >>, << >>)})
             /\ pc' = "spirec_fieldmap"
             /\ UNCHANGED << failure_reason, raised, tempdirs, succeeded >>
        ELSE spirec_raise(outcome)
    /\ UNCHANGED << inputVars, calls, meta, full_parsed, metadata_status,
                    executed, muxVars, dcm_list >>

\* self.data['fieldmap'] = <.B0freq2 reshaped>, when spirec wrote that file
spirec_fieldmap ==
    /\ pc = "spirec_fieldmap"
    /\ \E outcome \in {"absent", "ok", "ValueError"} :
        CASE outcome = "absent" ->
                /\ pc' = "spirec_average"
                /\ UNCHANGED << data, failure_reason, raised, tempdirs, succeeded >>
          [] outcome = "ok" ->
                /\ data' = Dict(data.vox \cup {Array("fieldmap", "fieldmap", << >>, << >>)})
                /\ pc' = "spirec_average"
                /\ UNCHANGED << failure_reason, raised, tempdirs, succeeded >>
          [] outcome = "ValueError" ->
                spirec_raise(outcome)
    /\ UNCHANGED << inputVars, calls, meta, full_parsed, metadata_status,
                    executed, muxVars, dcm_list >>

\* the weighted average of the two echoes replaces the primary volume
average_echoes(arrays) ==
    { IF a.label = "" THEN [a EXCEPT !.stage = "avg"] ELSE a : a \in arrays }

\* the end of recon_spirec: the two-echo average, the working directory is left
spirec_average ==
    /\ pc = "spirec_average"
    /\ \E outcome \in {"ok", "MemoryError"} :
        IF meta.num_echos = 2 /\ outcome = "MemoryError"
        THEN spirec_raise(outcome)
        ELSE /\ data' = IF meta.num_echos = 2 THEN Dict(average_echoes(data.vox)) ELSE data
             /\ tempdirs' = TemporaryDirectory_exit(tempdirs, "spirec")
             /\ do_recon_returned
             /\ UNCHANGED << failure_reason, raised >>
    /\ UNCHANGED << inputVars, calls, meta, full_parsed, metadata_status,
                    executed, muxVars, dcm_list >>

(***************************************************************************)
(* NIMSPFile.recon_muxepi                                                  *)
(***************************************************************************)
\* The calibration files found in the aux archive.  A name the loop over the
\* archive never assigns stays an unbound local.
cal_ref_file(aux) ==
    IF aux \in {"cal.tgz", "refonly.tgz"} THEN "aux/P_ref.dat" ELSE "unbound"
cal_vrgf_file(aux) ==
    IF aux = "cal.tgz" THEN "aux/P_vrgf.dat" ELSE "unbound"

\* The calibration block: "" when the scan brings its own calibration, the
\* common base name of the aux pair when one is needed and found, otherwise
\* the exception the block ends with.
calibration(cal_cycle, aux) ==
    IF cal_cycle < 2
    THEN IF cal_ref_file(aux) = "unbound" \/ cal_vrgf_file(aux) = "unbound"
         THEN [raises |-> "UnboundLocalError", cal_file |-> ""]
         ELSE [raises |-> None, cal_file |-> "aux/P"]
    ELSE [raises |-> None, cal_file |-> ""]

\* recon_muxepi is left: its locals are gone, and the files of the job
\* directory with the directory
mux_locals_dropped ==
    /\ mux_recon_jobs' = << >>
    /\ slice_num' = 0
    /\ waited' = 0
    /\ files' = {}
    /\ img' = << >>

\* entry: the job directory, the calibration block, the empty job list
recon_muxepi ==
    /\ pc = "recon_muxepi"
    /\ LET cal == calibration(meta.num_mux_cal_cycle, aux_file)
       IN  IF cal.raises # None
           THEN /\ do_recon_except(cal.raises)
                /\ UNCHANGED << tempdirs, muxVars >>
           ELSE /\ tempdirs' = TemporaryDirectory_enter(tempdirs, "muxepi")
                /\ mux_recon_jobs' = << >>
                /\ slice_num' = 0
                /\ waited' = 0
                /\ files' = {}
                /\ img' = << >>
                /\ pc' = "mux_submit"
                /\ UNCHANGED << data, failure_reason, raised >>
    /\ UNCHANGED << inputVars, calls, meta, full_parsed, metadata_status,
                    executed, succeeded, dcm_list >>

\* sum([job.poll()==None for job in mux_recon_jobs])
num_running_jobs(jobs) ==
    Cardinality({ i \in 1..Len(jobs) : jobs[i].st = "running" })

\* The process started for slice s: mux_epi_main gets slice s + 1 and writes
\* the file "<outname>_<s>.mat", here named by the number s.
\* ord records the rank in which the processes exit.
Popen_first(s) == [slice |-> 0, out |-> s, st |-> "running", tp |-> 0, ord |-> 0]
Popen(s) == [slice |-> s, out |-> s, st |-> "running", tp |-> 0, ord |-> 0]

\* the condition under which the loop starts another process
may_submit_le(running, limit) == running <= limit
may_submit_below(running, limit) == running + 1 < limit
may_submit(running, limit) == running < limit

\* one pass of 'while slice_num < self.num_slices': poll, then submit or sleep
mux_submit ==
    /\ pc = "mux_submit"
    /\ IF slice_num < meta.num_slices
       THEN IF may_submit(num_running_jobs(mux_recon_jobs), num_jobs)
            THEN /\ mux_recon_jobs' = Append(mux_recon_jobs, Popen(slice_num))
                 /\ slice_num' = slice_num + 1
                 /\ pc' = pc
            ELSE \* time.sleep(1.)
                 UNCHANGED << mux_recon_jobs, slice_num, pc >>
       ELSE /\ pc' = "mux_wait"
            /\ UNCHANGED << mux_recon_jobs, slice_num >>
    /\ UNCHANGED << inputVars, calls, meta, full_parsed, metadata_status, data,
                    failure_reason, tempdirs, executed, raised, succeeded,
                    waited, files, img, dcm_list >>

\* A file written under a name replaces what was there under that name.
write_file(fs, f) == { g \in fs : g.name # f.name } \cup {f}

\* One external process exits: with its output file written, holding tp
\* timepoints, or abnormally, before or after it has written the file.  The
\* exit status is all that tells the last case from the first.
job_exit ==
    /\ \E i \in 1..Len(mux_recon_jobs) :
        /\ mux_recon_jobs[i].st = "running"
        /\ \/ \E tp \in 1..MaxTP, st \in {"done", "failed"} :
                /\ mux_recon_jobs' = [mux_recon_jobs EXCEPT
                        ![i].st = st, ![i].tp = tp,
                        ![i].ord = Len(mux_recon_jobs) - num_running_jobs(mux_recon_jobs) + 1]
                /\ files' = write_file(files, [name |-> mux_recon_jobs[i].out,
                                               slice |-> mux_recon_jobs[i].slice,
                                               tp |-> tp])
           \/ /\ mux_recon_jobs' = [mux_recon_jobs EXCEPT ![i].st = "failed"]
              /\ files' = files
    /\ UNCHANGED << inputVars, pc, calls, meta, full_parsed, metadata_status,
                    data, failure_reason, tempdirs, executed, raised, succeeded,
                    slice_num, waited, img, dcm_list >>

\* job.wait() returns once that process has exited
job_wait_nonblocking(job) == TRUE
job_wait(job) == job.st # "running"

\* 'for job in mux_recon_jobs: job.wait()': one handle after the other;
\* after the last handle the loop is left
mux_wait ==
    /\ pc = "mux_wait"
    /\ IF waited < Len(mux_recon_jobs)
       THEN /\ job_wait(mux_recon_jobs[waited + 1])
            /\ waited' = waited + 1
            /\ UNCHANGED << pc, slice_num >>
       ELSE /\ pc' = "mux_load"
            /\ slice_num' = 0
            /\ UNCHANGED waited
    /\ UNCHANGED << inputVars, calls, meta, full_parsed, metadata_status, data,
                    failure_reason, tempdirs, executed, raised, succeeded,
                    mux_recon_jobs, files, img, dcm_list >>

\* img[...,0:t] += new_img[...,0:t] with t the shorter of the two lengths;
\* a timepoint of the volume is the sequence of slices added into it
accumulate(volume, new) ==
    LET t == Min(Len(volume), new.tp)
    IN  [k \in 1..Len(volume) |->
            IF k <= t THEN Append(volume[k], new.slice) ELSE volume[k]]

\* the name of the file the assembly loads for slice s
outname_first(s) == 0
outname(s) == s

\* one load_imagedata_from_file of the assembly: slice 0 initialises the
\* volume, every later slice is added into it; a missing file raises
mux_load ==
    /\ pc = "mux_load"
    /\ IF \E f \in files : f.name = outname(slice_num)
       THEN LET f == CHOOSE g \in files : g.name = outname(slice_num)
            IN  /\ img' = IF slice_num = 0
                          THEN [k \in 1..f.tp |-> << f.slice >>]
                          ELSE accumulate(img, f)
                /\ slice_num' = slice_num + 1
                /\ pc' = IF slice_num + 1 < meta.num_slices THEN pc ELSE "mux_update"
                /\ UNCHANGED << data, failure_reason, raised, tempdirs,
                                mux_recon_jobs, waited, files >>
       ELSE /\ do_recon_except("IOError")
            /\ tempdirs' = TemporaryDirectory_exit(tempdirs, "muxepi")
            /\ mux_locals_dropped
    /\ UNCHANGED << inputVars, calls, meta, full_parsed, metadata_status,
                    executed, succeeded, dcm_list >>

\* update_imagedata: the header is fixed to agree with the array (nz slices,
\* nt timepoints), then the array becomes the primary volume
update_imagedata(m, nz, nt) ==
    [ m EXCEPT !.num_slices = IF nz # m.num_slices * m.num_bands THEN nz ELSE @,
               !.num_timepoints = IF nt # m.num_timepoints THEN nt ELSE @ ]

\* the end of recon_muxepi: update_imagedata, the job directory is left
mux_update ==
    /\ pc = "mux_update"
    /\ \E nz \in {meta.num_slices * meta.num_bands, meta.num_slices} :
            meta' = update_imagedata(meta, nz, Len(img))
    /\ data' = Dict({Array("", "mux", img, << >>)})
    /\ tempdirs' = TemporaryDirectory_exit(tempdirs, "muxepi")
    /\ mux_locals_dropped
    /\ do_recon_returned
    /\ UNCHANGED << inputVars, calls, full_parsed, metadata_status,
                    failure_reason, executed, raised, dcm_list >>

\* the tail of do_recon: the flips common to every strategy, then the return
\* of do_recon and of load_data
do_recon_flip(d) ==
    IF d.isNone \/ d.vox = {} THEN d
    ELSE Dict({ [a EXCEPT !.rev = (a.rev # meta.reverse_slice_order),
                          !.lr = (a.lr # meta.flip_lr)] : a \in d.vox })

do_recon_finish ==
    /\ pc = "recon_done"
    /\ data' = do_recon_flip(data)
    /\ tempdirs' = load_data_exit(tempdirs)
    /\ pc' = "returned"
    /\ UNCHANGED << inputVars, calls, meta, full_parsed, metadata_status,
                    failure_reason, executed, raised, succeeded, muxVars, dcm_list >>

(***************************************************************************)
(* NIMSDicom with the GE and Siemens MR composer functions                 *)
(***************************************************************************)
MAX_LOC_DCMS == 150

\* SUPPORTED_MFR.get(manufacturer) and SUPPORTED_SOP.get(sop_class_uid)
SUPPORTED_MFR(manufacturer) ==
    CASE manufacturer = "GE MEDICAL SYSTEMS" -> "ge"
      [] manufacturer = "SIEMENS" -> "siemens"
      [] OTHER -> None

SUPPORTED_SOP(sop_class_uid) ==
    CASE sop_class_uid = "1.2.840.10008.5.1.4.1.1.4" -> "mr"
      [] sop_class_uid = "1.2.840.10008.5.1.4.1.1.7" -> "sc"
      [] sop_class_uid = "1.3.12.2.1107.5.9.1" -> "syngo_csa"
      [] sop_class_uid = "1.2.840.10008.5.1.4.1.1.88.22" -> "enhanced_sr"
      [] sop_class_uid = "1.2.840.10008.5.1.4.1.1.128" -> "pet"
      [] OTHER -> None

\* the composer modules of the package, as <<package, sop, mfr>>
ComposerModules ==
    { << "dcm", "mr", "ge" >>, << "dcm", "mr", "siemens" >>,
      << "dcm", "sc", "ge" >>, << "dcm", "sc", "siemens" >>,
      << "dcm", "enhanced_sr", "siemens" >> }

NoComposer == << >>

\* the module name the constructor builds, and what its import binds: the
\* module, or nothing when the import fails
composer(manufacturer, sop_class_uid) ==
    << "dcm", SUPPORTED_SOP(sop_class_uid), SUPPORTED_MFR(manufacturer) >>

composed(s) ==
    IF composer(s.manufacturer, s.sop_class_uid) \in ComposerModules
    THEN composer(s.manufacturer, s.sop_class_uid)
    ELSE NoComposer

\* What the model reads of a series: manufacturer and SOP class of the first
\* readable element, the number n of readable elements, and the tags
\* parse_one and parse_all read (locs: LocationsInAcquisition for GE, the
\* slice count of the CSA header for Siemens; vol_counter: elements at the
\* position of the first; ornts: distinct slice normals; cardiac:
\* CardiacNumberOfImages; trigger: the TriggerTime of the first three
\* elements in msec, empty when the elements carry none).
TriggerTimes == { << 0, 5, 10 >>, << 0, 10, 5 >>, << 10, 5, 0 >>, << 10, 0, 5 >> }

DicomSeries ==
    { s \in [ manufacturer : {"GE MEDICAL SYSTEMS", "SIEMENS", "PHILIPS", None},
              sop_class_uid : {"1.2.840.10008.5.1.4.1.1.4", "1.2.840.10008.5.1.4.1.1.128",
                               "1.2.840.10008.5.1.4.1.1.2"},
              n : 0..MaxDcm,
              locs : {Unset} \cup 1..MaxSlices,
              images : {Unset} \cup 1..MaxDcm,
              temporal : {Unset, 1, 2},
              ornts : 1..2,
              sop_mismatch : BOOLEAN,
              image_type : {"ORIG", "DERIVED_RFMT", "MOSAIC", "POSDISP"},
              dwi_dirs : {0, 6},
              vol_counter : 1..MaxDcm,
              cardiac : 0..1,
              trigger : {<< >>} \cup TriggerTimes ] :
        /\ (s.trigger # << >> =>
                /\ s.manufacturer = "GE MEDICAL SYSTEMS" /\ s.image_type = "ORIG"
                /\ s.n = 3 /\ s.ornts = 1 /\ s.vol_counter = 1 /\ s.cardiac = 0
                /\ s.dwi_dirs = 0 /\ ~s.sop_mismatch /\ s.temporal = 1)
        /\ s.vol_counter \in {1, s.n}
        /\ (s.n > 0 => s.ornts <= s.n)
        \* n = 0: the header of an element could be read, no element loads
        /\ (s.n = 0 =>
                /\ s.manufacturer = "GE MEDICAL SYSTEMS" /\ s.image_type = "ORIG"
                /\ s.sop_class_uid = "1.2.840.10008.5.1.4.1.1.4"
                /\ s.locs = 1 /\ s.images = 1 /\ s.temporal = 1 /\ s.ornts = 1
                /\ s.vol_counter = 1 /\ s.cardiac = 0 /\ s.dwi_dirs = 0 /\ ~s.sop_mismatch)
        /\ (s.manufacturer = "GE MEDICAL SYSTEMS" => s.image_type \in {"ORIG", "DERIVED_RFMT"})
        /\ (s.manufacturer = "SIEMENS" =>
                /\ s.image_type \in {"ORIG", "MOSAIC", "POSDISP"}
                /\ s.images = Unset /\ s.temporal = Unset
                /\ s.vol_counter = 1 /\ s.cardiac = 0
                /\ (s.image_type # "ORIG" => s.ornts = 1 /\ s.dwi_dirs = 0))
        /\ (composed(s) = NoComposer =>
                s.n = 1 /\ s.locs = 1 /\ s.images = 1 /\ s.temporal = 1
                /\ s.image_type = "ORIG" /\ ~s.sop_mismatch /\ s.ornts = 1)
        /\ (s.sop_mismatch \/ composed(s) = NoComposer =>
                s.ornts = 1 /\ s.dwi_dirs = 0 /\ s.vol_counter = 1 /\ s.cardiac = 0)
        /\ (s.sop_mismatch => s.image_type = "ORIG")
        /\ (s.dwi_dirs = 6 =>
                s.image_type = "ORIG" /\ s.ornts = 1 /\ s.vol_counter = 1 /\ s.cardiac = 0) }

\* ge.parse_one: slice and timepoint counts with their tie-break rules, the
\* diffusion flag, the non-image flag
ge_parse_one_uncorrected(m, s) ==
    LET dwi == s.image_type = "ORIG" /\ s.dwi_dirs >= 6
    IN  [ m EXCEPT !.num_slices = s.locs,
                   !.total_num_slices = s.images,
                   !.num_timepoints = IF dwi THEN 1 ELSE s.temporal,
                   !.is_dwi = dwi,
                   !.is_non_image = (s.image_type = "DERIVED_RFMT") ]
ge_parse_one(m, s) ==
    LET total0 == s.images
        total1 == IF Or(total0, 1) = Or(s.locs, 0)
                  THEN Or(s.locs, 1) * Or(s.temporal, 1) ELSE total0
        slices == IF Or(s.locs, 0) = 0 /\ Or(s.temporal, 1) = 1 THEN total1 ELSE s.locs
        dwi == s.image_type = "ORIG" /\ s.dwi_dirs >= 6
    IN  [ m EXCEPT !.num_slices = slices,
                   !.total_num_slices = total1,
                   !.num_timepoints = IF dwi THEN 1 ELSE s.temporal,
                   !.is_dwi = dwi,
                   !.is_non_image = (s.image_type = "DERIVED_RFMT") ]

\* siemens.parse_one: the diffusion flag, the non-image flag; the counts
\* are left to parse_all
siemens_parse_one(m, s) ==
    LET dwi == s.dwi_dirs > 1
    IN  [ m EXCEPT !.num_timepoints = IF dwi THEN 1 ELSE @,
                   !.is_dwi = dwi,
                   !.is_non_image = (s.image_type = "POSDISP") ]

parse_one_always_ge(m, s) == ge_parse_one(m, s)

\* self.parse_one(): the composed function, or the no-op of NIMSDicom
parse_one(m, s) ==
    CASE composed(s) = << "dcm", "mr", "ge" >> -> ge_parse_one(m, s)
      [] composed(s) = << "dcm", "mr", "siemens" >> -> siemens_parse_one(m, s)
      [] OTHER -> m

\* The archive at path: one with an element whose header can be read, one
\* without.
DicomInputs == {"dicom.tgz", "nodicom.tgz"}

\* the series of an archive without a readable element
NoHeader ==
    [ manufacturer |-> None, sop_class_uid |-> None, n |-> 0, locs |-> Unset,
      images |-> Unset, temporal |-> Unset, ornts |-> 1, sop_mismatch |-> FALSE,
      image_type |-> None, dwi_dirs |-> 0, vol_counter |-> 0, cardiac |-> 0,
      trigger |-> << >> ]

\* NIMSDicom.__init__
InitDicom ==
    /\ kind = "dicom"
    /\ api = NoCall
    /\ result = NoResult
    /\ input \in DicomInputs
    /\ hdr = [psdname |-> None]
    /\ aux_file = None
    /\ num_jobs = 0
    /\ calls = 0
    /\ IF input = "nodicom.tgz"
       THEN \* 'no header could be extracted': the constructor raises
            /\ series = NoHeader
            /\ meta = EmptyMeta
            /\ metadata_status = "empty"
            /\ pc = "no_dataset"
       ELSE /\ series \in DicomSeries
            /\ meta = parse_one(EmptyMeta, series)
            /\ metadata_status = "pending"
            /\ pc = "pending"
    /\ full_parsed = FALSE
    /\ data = NoData
    /\ failure_reason = None
    /\ tempdirs = {}
    /\ executed = << >>
    /\ raised = None
    /\ succeeded = {}
    /\ mux_recon_jobs = << >>
    /\ slice_num = 0
    /\ waited = 0
    /\ files = {}
    /\ img = << >>
    /\ dcm_list = << >>

\* ge.parse_all: the exception it ends with, None when it returns
parse_all_raises(m, s) ==
    IF s.vol_counter > Or(m.num_timepoints, 1) * Or(m.num_echos, 1)
       /\ (m.total_num_slices = Unset \/ m.num_slices = Unset)
    THEN "TypeError"
    ELSE IF s.vol_counter > Or(m.num_timepoints, 1) * Or(m.num_echos, 1)
            /\ m.total_num_slices \div m.num_slices = 0
    THEN "ValueError"
    ELSE IF m.num_slices = Unset
    THEN "TypeError"
    ELSE None

\* ge.parse_all, the slice order three or more float trigger times give
trigger_slice_order_swapped(trigger_times) ==
    LET from_first == [i \in 1..Len(trigger_times) |-> trigger_times[1] - trigger_times[i]]
    IN  IF from_first[2] < 0
        THEN IF trigger_times[3] > trigger_times[2]
             THEN SLICE_ORDER_ALT_INC ELSE SLICE_ORDER_SEQ_INC
        ELSE IF trigger_times[3] > trigger_times[2]
             THEN SLICE_ORDER_ALT_DEC ELSE SLICE_ORDER_SEQ_DEC
trigger_slice_order(trigger_times) ==
    LET from_first == [i \in 1..Len(trigger_times) |-> trigger_times[1] - trigger_times[i]]
    IN  IF from_first[2] < 0
        THEN IF trigger_times[3] > trigger_times[2]
             THEN SLICE_ORDER_SEQ_INC ELSE SLICE_ORDER_ALT_INC
        ELSE IF trigger_times[3] > trigger_times[2]
             THEN SLICE_ORDER_ALT_DEC ELSE SLICE_ORDER_SEQ_DEC

\* ge.parse_all, the slice order: inferred when the total covers one volume
\* and the first element reports a trigger time; reverse_slice_order is
\* False on every DICOM Dataset, so the times are never reversed
ge_slice_order(m, s) ==
    IF m.total_num_slices >= m.num_slices /\ s.trigger # << >>
    THEN IF m.num_slices > 2 /\ Min(m.num_slices, s.n) > 2
         THEN trigger_slice_order(s.trigger)
         ELSE SLICE_ORDER_SEQ_INC
    ELSE m.slice_order

\* ge.parse_all: localizer, multicoil and fastcard detection, slice order
ge_parse_all(m, s) ==
    LET fastcard == m.total_num_slices = s.cardiac * m.num_slices * 5
    IN  [ m EXCEPT !.is_localizer = IF m.total_num_slices < MAX_LOC_DCMS
                                    THEN s.ornts > 1 ELSE @,
                   !.is_multicoil = s.vol_counter > Or(m.num_timepoints, 1) * Or(m.num_echos, 1),
                   !.is_fastcard = fastcard,
                   !.slice_order = ge_slice_order(m, s),
                   !.num_timepoints = IF fastcard THEN s.cardiac ELSE @ ]

\* siemens.parse_all: the exception it ends with, None when it returns
siemens_parse_all_raises(m, s) ==
    IF s.image_type = "MOSAIC" /\ s.locs = Unset THEN "TypeError" ELSE None

\* siemens.parse_all: the counts, from the element count and the CSA header,
\* and localizer detection
siemens_parse_all(m, s) ==
    LET mosaic == s.image_type = "MOSAIC"
        slices == s.locs
        total == IF mosaic THEN slices * s.n ELSE s.n
        tp == IF mosaic THEN s.n
              ELSE IF Or(slices, 0) # 0 THEN total \div slices ELSE Unset
    IN  [ m EXCEPT !.num_slices = slices,
                   !.num_timepoints = tp,
                   !.total_num_slices = total,
                   !.is_localizer = IF total < MAX_LOC_DCMS THEN s.ornts > 1 ELSE @ ]

\* self.parse_all(): the composed function, or the no-op of NIMSDicom
parse_all(m, s) ==
    CASE composed(s) = << "dcm", "mr", "ge" >> ->
            [raises |-> parse_all_raises(m, s), meta |-> ge_parse_all(m, s)]
      [] composed(s) = << "dcm", "mr", "siemens" >> ->
            [raises |-> siemens_parse_all_raises(m, s), meta |-> siemens_parse_all(m, s)]
      [] OTHER -> [raises |-> None, meta |-> m]

\* NIMSDicom.load_data up to the call of convert: the elements are read and
\* sorted, parse_all completes the metadata
dicom_load_data ==
    /\ kind = "dicom"
    /\ pc = "pending"
    /\ calls < MaxCalls
    /\ calls' = calls + 1
    /\ executed' = << >>
    /\ raised' = None
    /\ dcm_list' = [i \in 1..series.n |-> i]
    /\ LET m1 == IF series.sop_mismatch THEN [meta EXCEPT !.is_non_image = TRUE] ELSE meta
       IN  IF series.n = 0
           THEN /\ pc' = "raised"
                /\ meta' = m1
                /\ UNCHANGED metadata_status
           ELSE IF parse_all(m1, series).raises # None
           THEN /\ pc' = "raised"
                /\ meta' = m1
                /\ UNCHANGED metadata_status
           ELSE /\ meta' = parse_all(m1, series).meta
                /\ metadata_status' = "complete"
                /\ pc' = "convert"
    /\ UNCHANGED << inputVars, full_parsed, data, failure_reason, tempdirs,
                    succeeded, muxVars >>

\* ge.convert: the strategy the flags select
convert_multicoil_first(m) ==
    IF m.is_non_image THEN "non_image_handler"
    ELSE IF m.is_multicoil THEN "multicoil_convert"
    ELSE IF m.is_localizer THEN "localizer_convert"
    ELSE IF m.is_fastcard THEN "fastcard_convert"
    ELSE "standard_convert"
convert(m) ==
    IF m.is_non_image THEN "non_image_handler"
    ELSE IF m.is_localizer THEN "localizer_convert"
    ELSE IF m.is_multicoil THEN "multicoil_convert"
    ELSE IF m.is_fastcard THEN "fastcard_convert"
    ELSE "standard_convert"

\* siemens.convert
siemens_convert(m) ==
    IF m.is_non_image THEN "non_image_handler"
    ELSE IF m.is_localizer THEN "localizer_convert"
    ELSE "standard_convert"

\* 'self.convert()' inside the try of load_data: the composed convert, or
\* the no-op of NIMSDicom when no composer matched
dicom_convert ==
    /\ pc = "convert"
    /\ LET f == CASE composed(series) = << "dcm", "mr", "ge" >> -> convert(meta)
                  [] composed(series) = << "dcm", "mr", "siemens" >> -> siemens_convert(meta)
                  [] OTHER -> "NIMSDicom_convert"
       IN  /\ pc' = f
           /\ executed' = Append(executed, f)
    /\ UNCHANGED << inputVars, calls, meta, full_parsed, metadata_status, data,
                    failure_reason, tempdirs, raised, succeeded, muxVars, dcm_list >>

\* the except clause of NIMSDicom.load_data, and its return
load_data_except_keeps(e) ==
    /\ data' = data
    /\ failure_reason' = e
    /\ raised' = e
    /\ pc' = "returned"
load_data_except(e) ==
    /\ data' = NoData
    /\ failure_reason' = e
    /\ raised' = e
    /\ pc' = "returned"

\* convert returned, and load_data with it
load_data_returned ==
    /\ succeeded' = succeeded \cup {calls}
    /\ pc' = "returned"

NIMSDicom_convert ==
    /\ pc = "NIMSDicom_convert"
    /\ data' = Dict({})
    /\ load_data_returned
    /\ UNCHANGED << inputVars, calls, meta, full_parsed, metadata_status,
                    failure_reason, tempdirs, executed, raised, muxVars, dcm_list >>

non_image_handler ==
    /\ pc = "non_image_handler"
    /\ load_data_returned
    /\ UNCHANGED << inputVars, calls, meta, full_parsed, metadata_status, data,
                    failure_reason, tempdirs, executed, raised, muxVars, dcm_list >>

\* localizer_convert: one timepoint per orientation, every element stacked
localizer_convert ==
    /\ pc = "localizer_convert"
    /\ \E outcome \in {"ok", "AttributeError"} :
        IF meta.total_num_slices = Unset
        THEN /\ load_data_except("TypeError")
             /\ UNCHANGED << meta, succeeded >>
        ELSE IF outcome = "ok"
        THEN /\ meta' = [meta EXCEPT !.num_timepoints = series.ornts,
                                     !.num_slices = meta.total_num_slices \div series.ornts]
             /\ data' = Dict({Array("", "localizer", << >>, dcm_list)})
             /\ load_data_returned
             /\ UNCHANGED << failure_reason, raised >>
        ELSE \* an element without pixel data, after the counts were set
             /\ meta' = [meta EXCEPT !.num_timepoints = series.ornts,
                                     !.num_slices = meta.total_num_slices \div series.ornts]
             /\ load_data_except(outcome)
             /\ UNCHANGED succeeded
    /\ UNCHANGED << inputVars, calls, full_parsed, metadata_status, tempdirs,
                    executed, muxVars, dcm_list >>

\* generic_mr.partial_vol_check on the element list l: nothing is checked
\* for a mosaic or an unknown slice count; fewer elements than one volume
\* raises; a dangling partial volume is cut off the tail
partial_vol_check_head(l, num_slices, mosaic) ==
    IF mosaic \/ Or(num_slices, 0) = 0 THEN [raises |-> None, list |-> l]
    ELSE IF Len(l) < num_slices THEN [raises |-> "NIMSDicomError", list |-> l]
    ELSE [raises |-> None, list |-> SubSeq(l, 1 + (Len(l) % num_slices), Len(l))]
partial_vol_check_lenient(l, num_slices, mosaic) ==
    IF mosaic \/ Or(num_slices, 0) = 0 \/ Len(l) < num_slices THEN [raises |-> None, list |-> l]
    ELSE [raises |-> None, list |-> SubSeq(l, 1, Len(l) - (Len(l) % num_slices))]
partial_vol_check(l, num_slices, mosaic) ==
    IF mosaic \/ Or(num_slices, 0) = 0 THEN [raises |-> None, list |-> l]
    ELSE IF Len(l) < num_slices THEN [raises |-> "NIMSDicomError", list |-> l]
    ELSE [raises |-> None, list |-> SubSeq(l, 1, Len(l) - (Len(l) % num_slices))]

\* a strategy that stacks the checked elements: the volume is assigned,
\* post_convert is still to run
stack_convert(stage, checked) ==
    \E outcome \in {"ok", "InvalidStackError"} :
        LET chk == IF checked
                   THEN partial_vol_check(dcm_list, meta.num_slices, series.image_type = "MOSAIC")
                   ELSE [raises |-> None, list |-> dcm_list]
        IN  IF chk.raises # None
            THEN /\ load_data_except(chk.raises)
                 /\ UNCHANGED dcm_list
            ELSE IF outcome = "InvalidStackError"
            THEN /\ load_data_except("NIMSDicomError")
                 /\ dcm_list' = chk.list
            ELSE /\ dcm_list' = chk.list
                 /\ data' = Dict({Array("", stage, << >>, chk.list)})
                 /\ pc' = "post_convert"
                 /\ UNCHANGED << failure_reason, raised >>

standard_convert ==
    /\ pc = "standard_convert"
    /\ stack_convert("standard", TRUE)
    /\ UNCHANGED << inputVars, calls, meta, full_parsed, metadata_status,
                    tempdirs, executed, succeeded, muxVars >>

multicoil_convert ==
    /\ pc = "multicoil_convert"
    /\ stack_convert("multicoil", TRUE)
    /\ UNCHANGED << inputVars, calls, meta, full_parsed, metadata_status,
                    tempdirs, executed, succeeded, muxVars >>

fastcard_convert ==
    /\ pc = "fastcard_convert"
    /\ stack_convert("fastcard", FALSE)
    /\ UNCHANGED << inputVars, calls, meta, full_parsed, metadata_status,
                    tempdirs, executed, succeeded, muxVars >>

\* generic_mr.post_convert: the b-vectors of a diffusion series are rotated
post_convert ==
    /\ pc = "post_convert"
    /\ \E outcome \in {"ok", "ValueError"} :
        IF meta.is_dwi /\ outcome = "ValueError"
        THEN /\ load_data_except(outcome)
             /\ UNCHANGED succeeded
        ELSE /\ load_data_returned
             /\ UNCHANGED << data, failure_reason, raised >>
    /\ UNCHANGED << inputVars, calls, meta, full_parsed, metadata_status,
                    tempdirs, executed, muxVars, dcm_list >>

(***************************************************************************)
(* The package interface: parse and write                                  *)
(***************************************************************************)
\* What path may name: nothing, a directory, a regular file that is neither
\* an archive nor a raw file, or one of the files the readers take.
Paths == {"missing", "dir", "notes.txt"} \cup Inputs \cup DicomInputs

exists(path) == path # "missing"
isdir(path) == path = "dir"
is_zipfile(path) == path \in (Inputs \cup DicomInputs) \ {"pfile.7"}
endswith_7(path) == path = "pfile.7"

\* the tables of readers.json and writers.json
READERS(filetype) ==
    CASE filetype = "dicom" -> "NIMSDicom"
      [] filetype = "pfile" -> "NIMSPFile"
      [] OTHER -> None

WRITERS(filetype) ==
    CASE filetype = "nifti" -> "NIMSNifti"
      [] OTHER -> None

\* get_handler: the class, or DataError('no handler for filetype ...')
get_handler(handler) ==
    IF handler = None
    THEN [raises |-> "DataError", handler |-> None]
    ELSE [raises |-> None, handler |-> handler]

\* The json of the archive comment: whether it parses, the filetype it
\* declares, the fields its overwrite map forces.
\* An overwrite map is the set of its keys; Forced is the value it gives one.
Overwrites == { {}, {"num_timepoints"}, {"num_timepoints", "num_slices"} }
Forced(key) == IF key = "num_timepoints" THEN 99 ELSE 98
Comments ==
    [present : {FALSE}, filetype : {None}, overwrite : {{}}]
    \cup [present : {TRUE}, filetype : {None, "dicom", "pfile"}, overwrite : Overwrites]

\* The arguments of a parse call, with the comment of the archive it meets.
ParseCalls ==
    [ op : {"parse"}, filetype : {None, "dicom", "pfile", "fake"},
      load_data : BOOLEAN, ignore_json : BOOLEAN, debug : BOOLEAN,
      comment : Comments ]

\* parse up to get_reader: the exception it raises (None when it goes on)
\* and the reader class it selects
parse_reader_any_file(a, path) ==
    LET filetype == IF ~is_zipfile(path) THEN "pfile" ELSE a.filetype
    IN  IF ~exists(path) THEN [raises |-> "DataError", handler |-> None]
        ELSE IF isdir(path) THEN [raises |-> "DataError", handler |-> None]
        ELSE IF a.ignore_json /\ filetype = None
        THEN [raises |-> "DataError", handler |-> None]
        ELSE IF a.ignore_json THEN get_handler(READERS(filetype))
        ELSE IF ~is_zipfile(path) THEN [raises |-> "BadZipfile", handler |-> None]
        ELSE IF ~a.comment.present THEN [raises |-> "DataError", handler |-> None]
        ELSE IF a.comment.filetype = None THEN [raises |-> "DataError", handler |-> None]
        ELSE get_handler(READERS(a.comment.filetype))
parse_reader(a, path) ==
    LET filetype == IF ~is_zipfile(path) THEN "pfile" ELSE a.filetype
    IN  IF ~exists(path) THEN [raises |-> "DataError", handler |-> None]
        ELSE IF isdir(path) THEN [raises |-> "DataError", handler |-> None]
        ELSE IF ~is_zipfile(path) /\ ~endswith_7(path)
        THEN [raises |-> "DataError", handler |-> None]
        ELSE IF a.ignore_json /\ filetype = None
        THEN [raises |-> "DataError", handler |-> None]
        ELSE IF a.ignore_json THEN get_handler(READERS(filetype))
        \* zipfile.ZipFile(path) on a file that is no archive
        ELSE IF ~is_zipfile(path) THEN [raises |-> "BadZipfile", handler |-> None]
        ELSE IF ~a.comment.present THEN [raises |-> "DataError", handler |-> None]
        \* the filetype of the json replaces the argument
        ELSE IF a.comment.filetype = None THEN [raises |-> "DataError", handler |-> None]
        ELSE get_handler(READERS(a.comment.filetype))

\* the constructors of the readers, as parse calls them: the exception
\* raised (None when a Dataset results) and the metadata of the Dataset
NIMSPFile_init(path, h) ==
    IF path = "nojson.tgz" THEN [raises |-> "NIMSPFileError", meta |-> EmptyMeta]
    ELSE IF is_tarfile(path) THEN [raises |-> None, meta |-> EmptyMeta]
    ELSE IF get_version(h.version_bytes, h.logo).raises # None \/ min_parse_raises(h)
    THEN [raises |-> "NIMSPFileError", meta |-> EmptyMeta]
    ELSE [raises |-> None,
          meta |-> [min_parse(h) EXCEPT !.version = get_version(h.version_bytes, h.logo).version]]

NIMSDicom_init(path, s) ==
    IF path = "nodicom.tgz" THEN [raises |-> "NIMSDicomError", meta |-> EmptyMeta]
    ELSE [raises |-> None, meta |-> parse_one(EmptyMeta, s)]

\* the setattr loop of parse over the overwrite map
setattr_none(m, overwrite) == m
setattr(m, overwrite) ==
    [ m EXCEPT !.num_timepoints = IF "num_timepoints" \in overwrite
                                  THEN Forced("num_timepoints") ELSE @,
               !.num_slices = IF "num_slices" \in overwrite
                              THEN Forced("num_slices") ELSE @ ]

\* The call the other contents are parsed with: the archive declares its
\* filetype, the data is loaded at parse.
DefaultCall(path) ==
    [ op |-> "parse", filetype |-> None, load_data |-> TRUE,
      ignore_json |-> (path = "pfile.7"), debug |-> FALSE,
      comment |-> [present |-> TRUE,
                   filetype |-> IF path \in DicomInputs THEN "dicom" ELSE "pfile",
                   overwrite |-> {}] ]

\* the contents the calls are varied on
Plain ==
    \/ input \in {"missing", "dir", "notes.txt", "nodicom.tgz", "nojson.tgz", "nopfile.tgz"}
    \/ /\ input = "dicom.tgz"
       /\ series.manufacturer = "GE MEDICAL SYSTEMS"
       /\ series.sop_class_uid = "1.2.840.10008.5.1.4.1.1.4"
       /\ series.image_type = "ORIG"
       /\ series.n = 2 /\ series.locs = 2 /\ series.images = 2 /\ series.temporal = 1
       /\ series.vol_counter = 1 /\ series.cardiac = 0 /\ series.dwi_dirs = 0
       /\ ~series.sop_mismatch /\ series.trigger = << >>
    \/ /\ input \in {"pfile.7", "pfile.tgz"}
       /\ hdr.psdname = "sprt" /\ hdr.slquant = 1 /\ hdr.user0 = 1 /\ hdr.nechoes = 1
       /\ hdr.se_sortorder = 0 /\ hdr.start_ras = "S" /\ ~hdr.start_gt_end

\* the state in which the caller calls parse(path, ...)
InitAPI ==
    /\ kind = "none"
    /\ input \in Paths
    /\ result = NoResult
    /\ IF input \in Inputs
       THEN /\ hdr \in { h \in PFileHeaders : h.slquant = 1 }
            /\ series = NoSeries
            /\ aux_file \in AuxFiles
            /\ num_jobs = MaxJobs
            /\ infer_psd_type(hdr.psdname, hdr.user6) # "muxepi" => aux_file = None
            /\ hdr.user7 >= 2 => aux_file = None
            /\ input = "pfile.tgz" => get_version(hdr.version_bytes, hdr.logo).raises = None
            /\ input \in {"nopfile.tgz", "nojson.tgz"}
                    => hdr.version_bytes = << 0, 0, 0, 0 >> /\ hdr.logo = "GE_MED_NMR"
       ELSE /\ hdr = [psdname |-> None]
            /\ series \in IF input = "dicom.tgz"
                          THEN { s \in DicomSeries : s.n <= 2 }
                          ELSE IF input = "nodicom.tgz" THEN {NoHeader} ELSE {NoSeries}
            /\ aux_file = None
            /\ num_jobs = 0
    /\ api \in IF Plain THEN ParseCalls ELSE {DefaultCall(input)}
    \* the reader the call selects is the reader of the content
    /\ parse_reader(api, input).handler = "NIMSDicom" => input \in DicomInputs
    /\ parse_reader(api, input).handler = "NIMSPFile" => input \in Inputs
    /\ pc = "parse"
    /\ calls = 0
    /\ meta = EmptyMeta
    /\ metadata_status = "empty"
    /\ full_parsed = FALSE
    /\ data = NoData
    /\ failure_reason = None
    /\ tempdirs = {}
    /\ executed = << >>
    /\ raised = None
    /\ succeeded = {}
    /\ mux_recon_jobs = << >>
    /\ slice_num = 0
    /\ waited = 0
    /\ files = {}
    /\ img = << >>
    /\ dcm_list = << >>

\* parse, up to the return of the reader's constructor or to the load_data
\* call the constructor makes
parse ==
    /\ pc = "parse"
    /\ api.op = "parse"
    /\ LET r == parse_reader(api, input)
           ds == IF r.handler = "NIMSDicom" THEN NIMSDicom_init(input, series)
                 ELSE NIMSPFile_init(input, hdr)
       IN  IF r.raises # None
           THEN /\ result' = [raises |-> r.raises, value |-> None]
                /\ pc' = "parse_raised"
                /\ UNCHANGED << kind, meta, metadata_status >>
           ELSE IF ds.raises # None
           THEN /\ result' = [raises |-> ds.raises, value |-> None]
                /\ pc' = "parse_raised"
                /\ UNCHANGED << kind, meta, metadata_status >>
           ELSE /\ kind' = IF r.handler = "NIMSDicom" THEN "dicom" ELSE "pfile"
                /\ meta' = ds.meta
                /\ metadata_status' = "pending"
                /\ pc' = IF api.load_data THEN "pending" ELSE "constructed"
                /\ UNCHANGED result
    /\ UNCHANGED << input, hdr, series, aux_file, num_jobs, api, calls, full_parsed,
                    data, failure_reason, tempdirs, executed, raised, succeeded,
                    muxVars, dcm_list >>

\* parse, from the return of the reader: the failure_reason check, the
\* overwrite loop, the return
parse_return ==
    /\ api.op = "parse"
    /\ pc \in {"constructed", "returned", "raised"}
    /\ IF pc = "raised"
       THEN \* load_data raised inside the constructor
            /\ result' = [raises |-> "Exception", value |-> None]
            /\ pc' = "parse_raised"
            /\ UNCHANGED meta
       ELSE IF failure_reason # None /\ api.debug
       THEN /\ result' = [raises |-> failure_reason, value |-> None]
            /\ pc' = "parse_raised"
            /\ UNCHANGED meta
       ELSE /\ meta' = IF api.ignore_json THEN meta
                       ELSE setattr(meta, api.comment.overwrite)
            /\ result' = [raises |-> None, value |-> "ds"]
            /\ pc' = "parsed"
    /\ UNCHANGED << kind, input, hdr, series, aux_file, num_jobs, api, calls,
                    full_parsed, metadata_status, data, failure_reason, tempdirs,
                    executed, raised, succeeded, muxVars, dcm_list >>

\* The arguments of a write call: metadata is None or the Dataset, data is
\* None or the Dataset's data, and the way the writer ends.
WriteCalls ==
    [ op : {"write"}, metadata : {None, "ds"}, data : {None, "ds.data"},
      filetype : {None, "nifti", "fake"}, debug : BOOLEAN,
      writer : {"ok", "NIMSNiftiError"} ]

\* write: the exception it raises (None when it returns) and the
\* output_list it returns, and whether a writer was called
write_result(w, d) ==
    IF w.filetype = None THEN [raises |-> "DataError", value |-> {}, writer |-> FALSE]
    ELSE IF w.metadata = None THEN [raises |-> None, value |-> {}, writer |-> FALSE]
    ELSE IF w.data = None \/ d.isNone THEN [raises |-> None, value |-> {}, writer |-> FALSE]
    ELSE IF get_handler(WRITERS(w.filetype)).raises # None
    THEN [raises |-> IF w.debug THEN "DataError" ELSE None, value |-> {}, writer |-> FALSE]
    ELSE IF w.writer # "ok"
    THEN [raises |-> IF w.debug THEN w.writer ELSE None, value |-> {}, writer |-> TRUE]
    ELSE [raises |-> None, value |-> {"outbase.nii.gz"}, writer |-> TRUE]

\* write(metadata, data, outbase, filetype, debug), called on what parse returned
write ==
    /\ pc = "parsed"
    /\ \E w \in WriteCalls :
        \* the way the writer ends is drawn where a writer is called
        /\ (w.filetype # "nifti" \/ w.metadata = None \/ w.data = None \/ data.isNone
                => w.writer = "ok")
        /\ api' = w
        /\ result' = write_result(w, data)
    /\ pc' = "written"
    /\ UNCHANGED << kind, input, hdr, series, aux_file, num_jobs, calls, meta,
                    full_parsed, metadata_status, data, failure_reason, tempdirs,
                    executed, raised, succeeded, muxVars, dcm_list >>

Init == InitPFile \/ InitDicom

Next ==
    \/ load_data
    \/ _full_parse
    \/ do_recon
    \/ recon_hoshim
    \/ recon_basic
    \/ recon_mrs
    \/ recon_spirec
    \/ spirec_mag
    \/ spirec_fieldmap
    \/ spirec_average
    \/ recon_muxepi
    \/ mux_submit
    \/ job_exit
    \/ mux_wait
    \/ mux_load
    \/ mux_update
    \/ do_recon_finish
    \/ dicom_load_data
    \/ dicom_convert
    \/ NIMSDicom_convert
    \/ non_image_handler
    \/ localizer_convert
    \/ standard_convert
    \/ multicoil_convert
    \/ fastcard_convert
    \/ post_convert

Spec == Init /\ [][Next]_vars

\* Several load_data calls on one Dataset: the caller calls load_data again
\* on a Dataset whose load_data has returned.
load_data_again ==
    /\ pc = "returned"
    /\ calls < MaxCalls
    /\ pc' = "pending"
    /\ UNCHANGED << inputVars, calls, meta, full_parsed, metadata_status, data,
                    failure_reason, tempdirs, executed, raised, succeeded,
                    muxVars, dcm_list >>

InitCalls ==
    /\ Init
    /\ kind = "pfile" => hdr.slquant = 1
    /\ kind = "dicom" => series.n <= 2

NextCalls ==
    \/ load_data_again
    \/ Next

SpecCalls == InitCalls /\ [][NextCalls]_vars

\* The multiband path by itself: load_data on a multiband raw file, up to
\* its return.
InitMux ==
    /\ InitPFile
    /\ infer_psd_type(hdr.psdname, hdr.user6) = "muxepi"
    \* what the job pool does not depend on is held fixed
    /\ input = "pfile.7"
    /\ hdr.ileaves = 1 /\ ~hdr.start_gt_end /\ hdr.numdifdirs = 0
    /\ aux_file \in {None, "cal.tgz"}
    \* no pool, a pool of one, the largest pool
    /\ num_jobs \in {0, 1, MaxJobs}

NextMux ==
    \/ load_data
    \/ _full_parse
    \/ do_recon
    \/ recon_muxepi
    \/ mux_submit
    \/ job_exit
    \/ mux_wait
    \/ mux_load
    \/ mux_update
    \/ do_recon_finish

\* the steps of recon_muxepi's one thread of control
mux_step ==
    \/ mux_submit
    \/ mux_wait
    \/ mux_load
    \/ mux_update

\* Every process that was started exits (the processes are finitely many,
\* and an exit is final, so a running process is not passed over for ever),
\* and the thread of control takes its next step whenever it has one.
SpecMux ==
    /\ InitMux
    /\ [][NextMux]_vars
    /\ WF_vars(job_exit)
    /\ WF_vars(mux_step)

\* the package interface: parse, the methods of the Dataset it constructs, write
NextAPI ==
    \/ parse
    \/ parse_return
    \/ write
    \/ Next

SpecAPI == InitAPI /\ [][NextAPI]_vars

(***************************************************************************)
(* Properties.                                                             *)
(***************************************************************************)
MuxPcs == {"mux_submit", "mux_wait", "mux_load", "mux_update"}
Returned == pc \in {"returned", "raised"}

\* C1: while recon_muxepi runs, the number of external processes in the
\* running state never exceeds num_jobs (max_concurrent_jobs), for every
\* slice count, every num_jobs and every timing of the process exits.
C1_PoolBound == num_running_jobs(mux_recon_jobs) <= num_jobs

\* the pool is full while slices are still waiting to be submitted
C1_Witness ==
    /\ pc = "mux_submit"
    /\ num_jobs = MaxJobs
    /\ num_running_jobs(mux_recon_jobs) = num_jobs
    /\ slice_num < meta.num_slices

\* the metadata the parse produced is on the Dataset
MetadataPresent ==
    IF kind = "pfile"
    THEN /\ full_parsed
         /\ meta = [full_parse(IF is_tarfile(input) THEN EmptyMeta ELSE min_parse(hdr), hdr)
                        EXCEPT !.version = get_version(hdr.version_bytes, hdr.logo).version]
    ELSE /\ metadata_status = "complete"
         /\ meta.is_dwi = parse_one(EmptyMeta, series).is_dwi
         /\ meta.total_num_slices = parse_all(parse_one(EmptyMeta, series), series).meta.total_num_slices

\* C2: once a strategy has raised an exception during load_data, the call
\* does not end by raising, failure_reason is that exception, the voxel data
\* is None and the parsed metadata is still there.
C2_FailureRecorded ==
    raised # None =>
        /\ pc # "raised"
        /\ failure_reason = raised
        /\ data = NoData
        /\ MetadataPresent

\* a DICOM stacking strategy failed and load_data returned
C2_Witness ==
    /\ kind = "dicom"
    /\ pc = "returned"
    /\ raised = "NIMSDicomError"
    /\ executed = << "standard_convert" >>

\* the orchestrator of recon_muxepi can take its next step
OrchestratorStep == recon_muxepi \/ mux_submit \/ mux_wait \/ mux_load \/ mux_update

\* C3: assembly starts only after all num_slices jobs were submitted and
\* every one of them has terminated, and the wait loop is the only place
\* where the orchestrator cannot go on until a process has exited.
C3_Barrier ==
    /\ (pc \in {"mux_load", "mux_update"} \/ img # << >>) =>
            /\ Len(mux_recon_jobs) = meta.num_slices
            /\ num_running_jobs(mux_recon_jobs) = 0
    /\ (pc \in MuxPcs \cup {"recon_muxepi"} /\ ~ENABLED OrchestratorStep) =>
            /\ pc = "mux_wait"
            /\ waited < Len(mux_recon_jobs)
            /\ mux_recon_jobs[waited + 1].st = "running"

\* the barrier was passed and the second slice file is about to be loaded
C3_Witness ==
    /\ pc = "mux_load"
    /\ slice_num = 1
    /\ Len(mux_recon_jobs) >= 2
    /\ waited = Len(mux_recon_jobs)

\* the timepoints the process of slice s produced
tp_of(s) == mux_recon_jobs[CHOOSE i \in 1..Len(mux_recon_jobs) : mux_recon_jobs[i].slice = s].tp

\* the volume made of the outputs of slices 0..k-1, slice by slice
RECURSIVE Assembled(_)
Assembled(k) ==
    IF k = 0 THEN << >>
    ELSE IF k = 1 THEN [t \in 1..tp_of(0) |-> << 0 >>]
    ELSE accumulate(Assembled(k - 1), [slice |-> k - 1, tp |-> tp_of(k - 1)])

\* C4: every job writes the file named by its own slice index and no two
\* jobs share a file; the assembly takes slice i from file i, so the volume
\* depends on the per-slice outputs only, not on the order of the exits.
C4_SliceIndexed ==
    /\ \A i, j \in 1..Len(mux_recon_jobs) :
            /\ mux_recon_jobs[i].out = mux_recon_jobs[i].slice
            /\ (i # j => mux_recon_jobs[i].out # mux_recon_jobs[j].out)
    /\ \A f \in files :
            /\ f.name = f.slice
            /\ f.tp = tp_of(f.slice)
    /\ pc \in {"mux_load", "mux_update"} => img = Assembled(slice_num)

\* the volume is complete although slice 1 was finished before slice 0
C4_Witness ==
    /\ pc = "mux_update"
    /\ Len(mux_recon_jobs) >= 2
    /\ mux_recon_jobs[1].ord > mux_recon_jobs[2].ord
    /\ img[1] = [i \in 1..Len(mux_recon_jobs) |-> i - 1]

C5_Order ==
    /\ \A i \in 1..Len(mux_recon_jobs) : mux_recon_jobs[i].slice = i - 1
    /\ pc = "mux_submit" => Len(mux_recon_jobs) = slice_num /\ slice_num <= meta.num_slices
    /\ pc \in {"mux_wait", "mux_load", "mux_update"} => Len(mux_recon_jobs) = meta.num_slices

C5_Submit ==
    Len(mux_recon_jobs') > Len(mux_recon_jobs) =>
        /\ Len(mux_recon_jobs') = Len(mux_recon_jobs) + 1
        /\ mux_recon_jobs'[Len(mux_recon_jobs')].slice = Len(mux_recon_jobs)
        /\ \A i \in 1..Len(mux_recon_jobs) : mux_recon_jobs'[i] = mux_recon_jobs[i]
        /\ num_running_jobs(mux_recon_jobs) < num_jobs

\* C5: the jobs are submitted for slice 0, 1, 2, ... in this order, one per
\* slice, none skipped and none twice, however the earlier jobs exit; a job
\* is submitted only while fewer than num_jobs processes are running.
C5_AscendingSubmission == []C5_Order /\ [][C5_Submit]_vars

\* slice 2 was submitted after slice 1 had exited and while slice 0 still runs
C5_Witness ==
    /\ Len(mux_recon_jobs) >= 3
    /\ mux_recon_jobs[1].st = "running"
    /\ mux_recon_jobs[2].ord = 1
    /\ mux_recon_jobs[3].st = "running"

\* the stage an array of the strategy must have reached to be complete
Complete(a) ==
    /\ a.call \in succeeded
    /\ (executed = << "recon_spirec" >> /\ meta.num_echos = 2 /\ a.label = "" => a.stage = "avg")

\* C6: whenever load_data has returned or raised, the voxel data is None or
\* every array in it is the complete result of a strategy that ran to its
\* end; an array assigned before the strategy failed is not left behind.
C6_AllOrNothing == Returned => (data.isNone \/ \A a \in data.vox : Complete(a))

\* spirec's primary volume had been assigned when the field map failed to load
C6_Witness ==
    /\ pc = "returned"
    /\ executed = << "recon_spirec" >>
    /\ raised = "ValueError"
    /\ data.isNone

\* the strategy the classification asks for, as a priority table
ExpectedStrategy ==
    IF kind = "pfile"
    THEN CASE meta.psd_type = "spiral" -> << "recon_spirec" >>
           [] meta.psd_type = "muxepi" -> << "recon_muxepi" >>
           [] meta.psd_type = "mrs" -> << "recon_mrs" >>
           [] meta.psd_type = "hoshim" -> << "recon_hoshim" >>
           [] meta.psd_type = "basic" -> << "recon_basic" >>
           [] OTHER -> << >>
    ELSE IF composed(series) = NoComposer THEN << "NIMSDicom_convert" >>
    ELSE IF meta.is_non_image THEN << "non_image_handler" >>
    ELSE IF meta.is_localizer THEN << "localizer_convert" >>
    ELSE IF meta.is_multicoil THEN << "multicoil_convert" >>
    ELSE IF meta.is_fastcard THEN << "fastcard_convert" >>
    ELSE << "standard_convert" >>

\* the strategy a position of the model belongs to
StrategyAt(p) ==
    CASE p \in {"recon_spirec", "spirec_mag", "spirec_fieldmap", "spirec_average"} -> "recon_spirec"
      [] p \in MuxPcs \cup {"recon_muxepi"} -> "recon_muxepi"
      [] p = "post_convert" -> executed[1]
      [] OTHER -> p

StrategyPcs ==
    MuxPcs \cup {"recon_spirec", "spirec_mag", "spirec_fieldmap", "spirec_average",
                 "recon_muxepi", "recon_mrs", "recon_hoshim", "recon_basic",
                 "NIMSDicom_convert", "non_image_handler", "localizer_convert",
                 "multicoil_convert", "fastcard_convert", "standard_convert",
                 "post_convert"}

\* C7: in a load_data call at most one strategy is entered, it is the one
\* the classification selects, and no other one runs after it, whether it
\* succeeded or failed.
C7_OneStrategy ==
    /\ Len(executed) <= 1
    /\ executed # << >> => executed = ExpectedStrategy
    /\ pc \in StrategyPcs => executed # << >> /\ StrategyAt(pc) = executed[1]
    /\ (pc \in {"recon_done", "returned"} /\ calls > 0) => executed = ExpectedStrategy

\* a series that is a localizer and multicoil was converted as a localizer
C7_Witness ==
    /\ kind = "dicom"
    /\ pc = "returned"
    /\ meta.is_localizer /\ meta.is_multicoil
    /\ executed = << "localizer_convert" >>

\* C8: when load_data has returned or raised, no temporary directory made
\* during the call exists any more: not the one of the unpacked archive, not
\* the one of the job outputs.
C8_TempdirsRemoved == Returned => tempdirs = {}

\* an archive was unpacked, a mux job crashed, load_data returned
C8_Witness ==
    /\ pc = "returned"
    /\ input = "pfile.tgz"
    /\ executed = << "recon_muxepi" >>
    /\ raised = "IOError"
    /\ tempdirs = {}

\* C9: a mux scan without its own calibration and without usable aux
\* calibration files ends load_data without raising, with no voxel data and
\* with the reconstruction error 'ref.dat/vrgf.dat not found' as failure_reason.
C9_MissingCalibration ==
    ( /\ pc = "returned"
      /\ executed = << "recon_muxepi" >>
      /\ meta.num_mux_cal_cycle < 2
      /\ aux_file \in {None, "refonly.tgz", "nocal.tgz"} )
    => /\ data.isNone
       /\ failure_reason = "NIMSPFileError"

\* C10: once the parse has made its corrections, total_num_slices equals
\* num_slices * num_timepoints * num_bands, or else the reconstruction ends
\* with a geometry-mismatch error and without voxel data.
C10_Geometry ==
    ( /\ pc = "returned"
      /\ meta.num_slices # Unset /\ meta.num_timepoints # Unset
      /\ meta.total_num_slices # meta.num_slices * meta.num_timepoints * Or(meta.num_bands, 1) )
    => /\ data.isNone
       /\ failure_reason = "GeometryMismatch"

\* standard reconstruction has stacked the elements of a series whose slice
\* count is known
StandardStacked ==
    /\ executed = << "standard_convert" >>
    /\ pc \in {"post_convert", "returned"}
    /\ ~data.isNone
    /\ Or(meta.num_slices, 0) # 0

\* the first floor(N / num_slices) * num_slices elements, in their order
CompleteVolumes == [i \in 1..((series.n \div meta.num_slices) * meta.num_slices) |-> i]

\* C11 as stated: for every element count N >= num_slices, standard
\* reconstruction stacks the first floor(N / num_slices) * num_slices
\* elements in their original order: N mod num_slices elements are removed
\* from the tail, none when N is a multiple of num_slices.
C11_TrimEverySeries ==
    (StandardStacked /\ series.n >= meta.num_slices) =>
        \A a \in data.vox : a.n = CompleteVolumes

\* C11, amended: the same for every series that is not a mosaic.
C11_TrimNonMosaic ==
    (StandardStacked /\ series.n >= meta.num_slices /\ series.image_type # "MOSAIC") =>
        \A a \in data.vox : a.n = CompleteVolumes

\* five elements of a two-slice series: the fifth is removed, four are stacked
C11_Witness ==
    /\ StandardStacked
    /\ pc = "returned"
    /\ series.image_type # "MOSAIC"
    /\ series.n = 5 /\ meta.num_slices = 2
    /\ \E a \in data.vox : a.n = << 1, 2, 3, 4 >>

\* standard reconstruction has run on fewer elements than one volume
TooFewElements ==
    /\ executed = << "standard_convert" >>
    /\ pc \in {"post_convert", "returned"}
    /\ Or(meta.num_slices, 0) # 0
    /\ series.n < meta.num_slices

\* C12 as stated: for every series with fewer elements than num_slices,
\* standard reconstruction fails: no voxel volume is produced and the
\* caller finds the reconstruction error.
C12_FailEverySeries ==
    TooFewElements => data.isNone /\ failure_reason = "NIMSDicomError"

\* C12, amended: the same for every series that is not a mosaic.
C12_FailNonMosaic ==
    (TooFewElements /\ series.image_type # "MOSAIC") =>
        data.isNone /\ failure_reason = "NIMSDicomError"

\* two elements of a three-slice series: the reconstruction error is recorded
C12_Witness ==
    /\ TooFewElements
    /\ pc = "returned"
    /\ series.image_type # "MOSAIC"
    /\ series.n = 2 /\ meta.num_slices = 3
    /\ raised = "NIMSDicomError"
    /\ data.isNone

\* C13: when standard reconstruction has trimmed a dangling partial volume,
\* the number of timepoints recorded on the Dataset after load_data is the
\* number of complete volumes that were stacked.
C13_TimepointsRecorded ==
    ( /\ StandardStacked
      /\ pc = "returned"
      /\ series.image_type # "MOSAIC"
      /\ series.n >= meta.num_slices
      /\ series.n % meta.num_slices # 0 )
    => \A a \in data.vox : meta.num_timepoints = Len(a.n) \div meta.num_slices

\* a Dataset of a GE MR series as its constructor, with parse_one, leaves it
GEParsedOne ==
    /\ kind = "dicom"
    /\ composed(series) = << "dcm", "mr", "ge" >>
    /\ pc = "pending"

\* C14: the geometry rule of the single-record parse: when the header's
\* total slice count equals num_slices and the header gives T timepoints,
\* total_num_slices becomes num_slices * T; when num_slices is not given and
\* the number of timepoints is 1, num_slices becomes total_num_slices.
C14_GeometryRule ==
    GEParsedOne =>
        /\ (series.locs # Unset /\ series.images = series.locs /\ series.temporal # Unset
                => /\ meta.num_slices = series.locs
                   /\ meta.total_num_slices = series.locs * series.temporal)
        /\ (series.locs = Unset /\ series.temporal = 1
                => /\ meta.total_num_slices = series.images
                   /\ meta.num_slices = meta.total_num_slices)

\* the header says 2 slices, 2 images, 2 timepoints: the total becomes 4
C14_Witness ==
    /\ GEParsedOne
    /\ series.locs = 2 /\ series.images = 2 /\ series.temporal = 2
    /\ meta.total_num_slices = 4

\* a Dataset of a GE MR series whose full-series parse inferred the slice
\* order from the trigger times of at least three slices
TriggerInferred ==
    /\ kind = "dicom"
    /\ composed(series) = << "dcm", "mr", "ge" >>
    /\ metadata_status = "complete"
    /\ series.trigger # << >>
    /\ meta.total_num_slices >= meta.num_slices
    /\ meta.num_slices > 2
    /\ ~meta.reverse_slice_order

\* C15 as stated: trigger times [0, 10, 5] give "sequential increasing" and
\* [0, 5, 10] give "alternating increasing".
C15_SliceOrderAsStated ==
    TriggerInferred =>
        /\ (series.trigger = << 0, 10, 5 >> => meta.slice_order = SLICE_ORDER_SEQ_INC)
        /\ (series.trigger = << 0, 5, 10 >> => meta.slice_order = SLICE_ORDER_ALT_INC)

\* C15: slice-order inference from trigger times in the full-series parse,
\* with reverse_slice_order False and at least three slices covered by the
\* total: trigger times [0, 5, 10] ms of the first three slices give the
\* "sequential increasing" code, [0, 10, 5] ms the "alternating increasing"
\* code.
C15_SliceOrder ==
    TriggerInferred =>
        /\ (series.trigger = << 0, 5, 10 >> => meta.slice_order = SLICE_ORDER_SEQ_INC)
        /\ (series.trigger = << 0, 10, 5 >> => meta.slice_order = SLICE_ORDER_ALT_INC)

\* the full-series parse of a series with trigger times [0, 10, 5] has run
C15_Witness ==
    /\ TriggerInferred
    /\ series.trigger = << 0, 10, 5 >>
    /\ meta.slice_order = SLICE_ORDER_ALT_INC

\* C16: get_version is a total classifier of raw-header prefixes: each
\* supported 4-byte magic with a matching vendor signature gives its version
\* tag (24, 23, 22 or 12); every other prefix, and every signature that
\* does not match, raises, and a bare file it raises on gives no Dataset.
C16_GetVersionTotal ==
    kind = "pfile" =>
        LET r == get_version(hdr.version_bytes, hdr.logo)
            matching == hdr.logo \in {"GE_MED_NMR", "INVALIDNMR"}
            tag == [b \in { << 0, 0, 192, 65 >>, << 86, 14, 160, 65 >>,
                            << 74, 12, 160, 65 >>, << 0, 0, 48, 65 >> } |->
                        CASE b = << 0, 0, 192, 65 >> -> 24
                          [] b = << 86, 14, 160, 65 >> -> 23
                          [] b = << 74, 12, 160, 65 >> -> 22
                          [] OTHER -> 12]
        IN  /\ (hdr.version_bytes \in DOMAIN tag /\ matching
                    => r.raises = None /\ r.version = tag[hdr.version_bytes])
            /\ (hdr.version_bytes \notin DOMAIN tag \/ ~matching
                    => r.raises # None /\ (~is_tarfile(input) => pc = "no_dataset"))
            /\ (r.raises = None /\ pc \notin {"no_dataset", "pending"}
                    => meta.version = r.version)

\* a version-23 file in an archive was classified by load_data
C16_Witness ==
    /\ kind = "pfile"
    /\ hdr.version_bytes = << 86, 14, 160, 65 >>
    /\ input = "pfile.tgz"
    /\ pc = "full_parse"
    /\ meta.version = 23

\* a bare file with a supported magic and a foreign signature is rejected
C16_WitnessRejected ==
    /\ kind = "pfile"
    /\ hdr.version_bytes = << 0, 0, 192, 65 >>
    /\ hdr.logo = "GE_MED_XXX"
    /\ input = "pfile.7"
    /\ pc = "no_dataset"

\* the (manufacturer, SOP class) pair of the series has a composer module
SupportedPair == composer(series.manufacturer, series.sop_class_uid) \in ComposerModules

\* the methods bound to the Dataset are those of module c (<< >>: the no-ops
\* of NIMSDicom): parse_one has produced the metadata of the constructed
\* Dataset, convert chooses the strategy of the call
Bound(c) ==
    /\ pc # "no_dataset"
    /\ calls = 0 =>
            meta = CASE c = << "dcm", "mr", "ge" >> -> ge_parse_one(EmptyMeta, series)
                     [] c = << "dcm", "mr", "siemens" >> -> siemens_parse_one(EmptyMeta, series)
                     [] OTHER -> EmptyMeta
    /\ pc \in StrategyPcs \cup {"NIMSDicom_convert"} =>
            (c = NoComposer <=> pc = "NIMSDicom_convert")

C17_WitnessSiemens ==
    /\ kind = "dicom"
    /\ composed(series) = << "dcm", "mr", "siemens" >>
    /\ series.dwi_dirs = 6
    /\ pc = "pending"
    /\ meta.is_dwi

\* a version-24 file whose sequence name contains "mux" and whose header
\* gives num_bands = 2
Mux24 ==
    /\ kind = "pfile"
    /\ get_version(hdr.version_bytes, hdr.logo).version = 24
    /\ HasMux(hdr.psdname)
    /\ hdr.user6 = 2

\* C18: such a file is classified muxepi, the multiband strategy is the one
\* run, and num_timepoints is passes + num_bands * (interleaves - 1) *
\* num_mux_cal_cycle after the minimal parse and after the full parse.
C18_MuxTimepoints ==
    Mux24 =>
        LET documented == hdr.npasses + hdr.user6 * (hdr.ileaves - 1) * hdr.user7
            parsed == /\ meta.psd_type = "muxepi"
                      /\ meta.num_timepoints = documented
        IN  /\ (input = "pfile.7" /\ pc = "pending" /\ calls = 0 => parsed)
            /\ (full_parsed /\ executed = << >> => parsed)
            /\ (executed # << >> => executed[1] = "recon_muxepi")

\* the part of C18 the full parse and the strategy selection meet
C18_FullParseOnly ==
    Mux24 =>
        /\ (full_parsed /\ executed = << >> =>
                /\ meta.psd_type = "muxepi"
                /\ meta.num_timepoints = hdr.npasses + hdr.user6 * (hdr.ileaves - 1) * hdr.user7)
        /\ (executed # << >> => executed[1] = "recon_muxepi")

\* load_data ended by raising
Aborted == pc = "raised"

\* the phase of load_data that completes the metadata has failed: no DICOM
\* element was loaded, parse_all raised, or _full_parse raised
FullParseFailed ==
    \/ /\ kind = "dicom" /\ calls = 1
       /\ \/ series.n = 0
          \/ parse_all(IF series.sop_mismatch
                       THEN [parse_one(EmptyMeta, series) EXCEPT !.is_non_image = TRUE]
                       ELSE parse_one(EmptyMeta, series), series).raises # None
    \/ /\ kind = "pfile" /\ calls = 1
       /\ ~full_parsed /\ pc \notin {"full_parse"}
       /\ (is_tarfile(input) => get_version(hdr.version_bytes, hdr.logo).raises = None)

\* C19: a fatal error in the full parse / metadata completion of load_data
\* (no element loaded, parse_all failing, the raw full parse failing) ends
\* the call by raising: failure_reason is not set, no strategy has been
\* entered, and none is entered later.
C19_FullParseAborts ==
    FullParseFailed =>
        /\ Aborted
        /\ failure_reason = None
        /\ raised = None
        /\ executed = << >>
        /\ metadata_status # "complete"
        /\ \A p \in StrategyPcs : ~ENABLED (pc' = p /\ Next)

\* parse_all raised on a loaded DICOM series
C19_Witness ==
    /\ kind = "dicom" /\ calls = 1 /\ series.n > 0
    /\ FullParseFailed
    /\ Aborted

\* no element of the archive could be loaded
C19_WitnessNoElements ==
    /\ kind = "dicom" /\ calls = 1 /\ series.n = 0
    /\ input = "dicom.tgz"
    /\ Aborted

\* _full_parse raised on a bare raw file
C19_WitnessPFile ==
    /\ kind = "pfile" /\ input = "pfile.7"
    /\ FullParseFailed
    /\ Aborted

\* the minimal parse of the constructor meets a fatal error: the archive has
\* no element with a readable header (DICOM) or no json member with a header
\* section (raw archive), get_version rejects the bare file, or _min_parse
\* raises (version 12: undefined name; a sequence name of type 'epi': the
\* raw header is read before any full parse)
MinParseFails ==
    \/ kind = "dicom" /\ input = "nodicom.tgz"
    \/ kind = "pfile" /\ input = "nojson.tgz"
    \/ /\ kind = "pfile" /\ input = "pfile.7"
       /\ \/ hdr.version_bytes \notin { << 0, 0, 192, 65 >>, << 86, 14, 160, 65 >>,
                                       << 74, 12, 160, 65 >>, << 0, 0, 48, 65 >> }
          \/ hdr.logo \notin {"GE_MED_NMR", "INVALIDNMR"}
          \/ hdr.version_bytes = << 0, 0, 48, 65 >>
          \/ ge_infer_psd_type(hdr.psdname) = "epi"

\* C20: a fatal error during the minimal parse aborts Dataset creation: the
\* constructor raises, no attribute of a Dataset is there for the caller,
\* and no load_data call can be made.
C20_NoDataset ==
    MinParseFails =>
        /\ pc = "no_dataset"
        /\ metadata_status = "empty"
        /\ meta = EmptyMeta
        /\ calls = 0
        /\ ~ENABLED Next

\* the minimal parse of a bare file failed
C20_Witness ==
    /\ kind = "pfile" /\ input = "pfile.7"
    /\ get_version(hdr.version_bytes, hdr.logo).version = 24
    /\ ge_infer_psd_type(hdr.psdname) = "epi"
    /\ pc = "no_dataset"

\* no element of the DICOM archive has a readable header
C20_WitnessNoHeader ==
    /\ kind = "dicom" /\ input = "nodicom.tgz"
    /\ pc = "no_dataset"

\* the raw archive has no json member with a header section
C20_WitnessNoJson ==
    /\ kind = "pfile" /\ input = "nojson.tgz"
    /\ pc = "no_dataset"

(***************************************************************************)
(* The package interface                                                   *)
(***************************************************************************)
\* parse has returned a Dataset and the caller has not gone on to write
ParseReturned == pc = "parsed" /\ api.op = "parse"

\* the Dataset holds the sidecar's value for every key of the overwrite map
Overwritten ==
    /\ "num_timepoints" \in api.comment.overwrite
            => meta.num_timepoints = Forced("num_timepoints")
    /\ "num_slices" \in api.comment.overwrite
            => meta.num_slices = Forced("num_slices")

\* C21 as stated: whenever parse returns a Dataset for an archive whose
\* sidecar carries an overwrite map, the Dataset holds the sidecar's value
\* for every key of the map.
C21_OverwriteAsStated == ParseReturned /\ api.comment.present => Overwritten

\* C21: whenever parse reads the sidecar (ignore_json is False) and returns
\* a Dataset, the Dataset holds the sidecar's value for every key of the
\* overwrite map, also for a field the load inside parse has derived.
C21_Overwrite == ParseReturned /\ ~api.ignore_json => Overwritten

\* the load done inside parse derived the fields, and the sidecar's values stand
C21_Witness ==
    /\ ParseReturned /\ ~api.ignore_json /\ api.load_data
    /\ api.comment.overwrite = {"num_timepoints", "num_slices"}
    /\ calls = 1 /\ ~data.isNone
    /\ meta.num_timepoints = 99 /\ meta.num_slices = 98

\* the inputs parse does not accept: a path that does not exist, a
\* directory, a regular file that is neither an archive nor a raw file, an
\* archive without a json that declares a filetype, no filetype being given
Unacceptable ==
    \/ ~exists(input)
    \/ isdir(input)
    \/ ~is_zipfile(input) /\ ~endswith_7(input)
    \/ /\ is_zipfile(input) /\ api.filetype = None
       /\ ~api.comment.present \/ api.comment.filetype = None

\* parse has ended by raising the package's data error, no reader having
\* been constructed
RaisedDataError ==
    /\ pc = "parse_raised"
    /\ result = [raises |-> "DataError", value |-> None]
    /\ kind = "none" /\ metadata_status = "empty" /\ calls = 0

\* C22: for every input that is not acceptable, parse raises the package's
\* data error and returns no Dataset.
C22_Unacceptable ==
    api.op = "parse" /\ pc # "parse" /\ Unacceptable => RaisedDataError

\* an archive without a sidecar, parsed without a filetype, has raised
C22_Witness ==
    /\ RaisedDataError /\ is_zipfile(input)
    /\ api.filetype = None /\ ~api.comment.present /\ ~api.ignore_json

\* a regular file that is neither an archive nor a raw file has raised
C22_WitnessNoArchive == RaisedDataError /\ input = "notes.txt"

\* a directory has raised
C22_WitnessDirectory == RaisedDataError /\ input = "dir"

\* a path that does not exist has raised
C22_WitnessMissing == RaisedDataError /\ input = "missing"

\* C23 as stated: parse called with ignore_json = True and no filetype raises
\* the package's data error for every path, no reader being invoked.
C23_IgnoreJsonNoFiletype ==
    api.op = "parse" /\ pc # "parse" /\ api.ignore_json /\ api.filetype = None
        => RaisedDataError

\* what holds of that call: it raises the data error for every path but
\* that of a bare raw file
C23_ButRawFile ==
    api.op = "parse" /\ pc # "parse" /\ api.ignore_json /\ api.filetype = None
        /\ ~endswith_7(input) => RaisedDataError

\* the voxel data handed to write is None
WriteDataNone == api.data = None \/ data.isNone

\* C24 as stated: write raises the package's data error, calls no writer
\* and makes no output whenever filetype, metadata or data is None.
C24_WriteRaises ==
    pc = "written" /\ (api.filetype = None \/ api.metadata = None \/ WriteDataNone)
        => result.raises = "DataError" /\ ~result.writer /\ result.value = {}

\* what holds of these calls: no writer is called and no output is made,
\* and a filetype of None raises the data error
C24_NoWriter ==
    pc = "written" /\ (api.filetype = None \/ api.metadata = None \/ WriteDataNone)
        => /\ ~result.writer /\ result.value = {}
           /\ api.filetype = None => result.raises = "DataError"

(***************************************************************************)
(* The per-slice processes of recon_muxepi                                 *)
(***************************************************************************)
\* a process of the pool has terminated abnormally
JobFailed == \E i \in 1..Len(mux_recon_jobs) : mux_recon_jobs[i].st = "failed"

\* a process of the pool has terminated abnormally and left no output file
JobFailedNoOutput ==
    \E i \in 1..Len(mux_recon_jobs) :
        /\ mux_recon_jobs[i].st = "failed"
        /\ \A f \in files : f.name # mux_recon_jobs[i].out

\* recon_muxepi is left, to the tail of do_recon
MuxLeft == pc \in MuxPcs /\ pc' = "recon_done"

\* C25 as stated: when a per-slice process has terminated abnormally,
\* recon_muxepi ends with the voxel data absent and failure_reason set; no
\* volume is assembled with a failed process taken for a successful one.
C25_FailedJob ==
    [][JobFailed /\ MuxLeft => data'.isNone /\ failure_reason' # None]_vars

\* what holds: a process that left no output file ends recon_muxepi with
\* the voxel data absent and failure_reason set
C25_MissingOutput ==
    [][JobFailedNoOutput /\ MuxLeft => data'.isNone /\ failure_reason' # None]_vars

\* the least number of timepoints among the output files
MinTP == CHOOSE m \in { f.tp : f \in files } : \A f \in files : m <= f.tp

\* C26 as stated: the assembled volume has the least number of timepoints
\* among the per-slice outputs, whichever slice is the short one, and every
\* timepoint it keeps holds the contribution of every slice.
C26_MinimumLength ==
    pc = "mux_update" =>
        /\ Len(img) = MinTP
        /\ \A k \in 1..Len(img) : Len(img[k]) = meta.num_slices

\* what holds: the volume has the length of slice 0's output, and its
\* timepoints up to the least length hold every slice
C26_FirstSliceLength ==
    pc = "mux_update" =>
        /\ \E f \in files : f.name = outname(0) /\ Len(img) = f.tp
        /\ \A k \in 1..MinTP : Len(img[k]) = meta.num_slices

\* all slices are submitted and the barrier is released
BarrierReleased ==
    /\ pc = "mux_load"
    /\ Len(mux_recon_jobs) = meta.num_slices
    /\ num_running_jobs(mux_recon_jobs) = 0

\* C27: with num_jobs >= 1 and every started process exiting in the end,
\* the submit loop comes to submit a process for every slice and the
\* barrier is released, and recon_muxepi then terminates.
C27_PoolLiveness ==
    (pc = "mux_submit" /\ num_jobs >= 1)
        ~> (BarrierReleased /\ <>(pc \notin MuxPcs))

\* more slices than the pool holds have been through it, and the assembly
\* is complete
C27_Witness ==
    /\ pc = "mux_update"
    /\ num_jobs = 1
    /\ Len(mux_recon_jobs) = MaxSlices
    /\ Len(img) >= 1

\* with num_jobs = 0 nothing is ever submitted
C27_WitnessNoCapacity ==
    pc = "mux_submit" /\ num_jobs = 0 /\ slice_num < meta.num_slices

(***************************************************************************)
(* Several load_data calls                                                 *)
(***************************************************************************)
\* C28 as stated: when a load_data call has returned, failure_reason is set
\* exactly if the reconstruction of that call failed, whatever earlier calls
\* did, and the voxel data is None whenever failure_reason is set.
C28_MostRecentCall ==
    pc = "returned" =>
        /\ (failure_reason # None) <=> (raised # None)
        /\ failure_reason # None => data.isNone

\* what holds: no load_data call resets a failure_reason that is set
C28_NeverReset == [][failure_reason # None => failure_reason' # None]_vars

(***************************************************************************)
(* metadata_status                                                         *)
(***************************************************************************)
\* the place of a status in the lifecycle empty -> pending -> complete
StatusRank(status) ==
    CASE status = "empty" -> 0
      [] status = "pending" -> 1
      [] status = "complete" -> 2

\* C29 as stated: metadata_status is 'pending' when the constructor has
\* returned and 'complete' whenever load_data has returned without raising,
\* for DICOM and for raw datasets alike.
C29_Lifecycle ==
    /\ pc = "pending" /\ calls = 0 => metadata_status = "pending"
    /\ pc = "returned" => metadata_status = "complete"

\* what holds: the status never moves backwards
C29_NeverBackwards ==
    [][StatusRank(metadata_status') >= StatusRank(metadata_status)]_vars

\* what holds: 'pending' after construction, 'complete' after the load_data
\* of a DICOM dataset, never 'complete' for a raw dataset
C29_DicomOnly ==
    /\ pc = "pending" /\ calls = 0 => metadata_status = "pending"
    /\ kind = "dicom" /\ pc = "returned" => metadata_status = "complete"
    /\ kind = "pfile" => metadata_status # "complete"

(***************************************************************************)
(* The minimal parse of every version                                      *)
(***************************************************************************)
\* a bare raw file whose version tag and signature get_version accepts
AcceptedBareFile ==
    /\ kind = "pfile" /\ input = "pfile.7"
    /\ get_version(hdr.version_bytes, hdr.logo).raises = None

\* C30 as stated: for every version get_version accepts, the constructor on
\* a bare file yields a Dataset with the fields of the minimal parse and
\* metadata_status 'pending'.
C30_EveryVersion ==
    AcceptedBareFile /\ ge_infer_psd_type(hdr.psdname) # "epi" =>
        /\ pc # "no_dataset"
        /\ calls = 0 => /\ metadata_status = "pending"
                        /\ meta.psd_name = hdr.psdname
                        /\ meta.version = get_version(hdr.version_bytes, hdr.logo).version

\* what holds: the same for the versions 24, 23 and 22
C30_ButVersion12 ==
    AcceptedBareFile /\ ge_infer_psd_type(hdr.psdname) # "epi"
        /\ get_version(hdr.version_bytes, hdr.logo).version # 12 =>
        /\ pc # "no_dataset"
        /\ calls = 0 => /\ metadata_status = "pending"
                        /\ meta.psd_name = hdr.psdname
                        /\ meta.version = get_version(hdr.version_bytes, hdr.logo).version
====
